---- MODULE Spec2Model ----
(***************************************************************************)
(* Binding layer of cb-mpc-go: the transport adapter over caller-supplied  *)
(* callbacks, the session (job) constructors and destructors, and the      *)
(* operation entry points that drive the protocol engine.  The engine and  *)
(* the caller's callbacks are the environment: their results are chosen    *)
(* nondeterministically from small sets.                                   *)
(*                                                                         *)
(* Every action models one call across the boundary, from entry to return. *)
(* The persistent state is the table of live sessions (jobs); call, ret    *)
(* and trace describe the most recent call: its arguments, what it         *)
(* returned, and the ordered list of the effects it had (callbacks         *)
(* invoked, engine steps, allocations, releases, writes through            *)
(* out-parameters).                                                        *)
(***************************************************************************)
EXTENDS Integers, Sequences, FiniteSets, TLC

VARIABLES jobs, caller_table, made, g_cbmpc_kem_tls, call, ret, trace

vars == <<jobs, caller_table, made, g_cbmpc_kem_tls, call, ret, trace>>

\* What a call on no session and no thread-local state leaves alone.
others == <<jobs, caller_table, made, g_cbmpc_kem_tls>>

(***************************************************************************)
(* Bounds of the model.                                                    *)
(***************************************************************************)
\* Largest party count a multi-party session is built with.
MaxParties == 3
\* Longest message handed to send, in bytes.
MaxLen == 1

(***************************************************************************)
(* Error codes.  The engine's codes are 0xff000000 | category << 16 | code *)
(* seen as a negative 32-bit int: 0xff000000 is -16777216.                 *)
(***************************************************************************)
ERRCODE(category, code) == category * 65536 + code - 16777216

SUCCESS == 0
E_BADARG == ERRCODE(1, 2)
E_CRYPTO == ERRCODE(4, 1)
\* Engine codes the binding uses or documents but whose value the engine's
\* own header sets: network category 3, crypto category 4.
E_NET_GENERAL == ERRCODE(3, 1)
E_ECDSA_2P_BIT_LEAK == ERRCODE(4, 2)

(***************************************************************************)
(* Values crossing the boundary.                                           *)
(***************************************************************************)
\* Longest history of calls on the KEM context handle that is followed.
MaxOps == 3

\* Session handles: the addresses a wrapper can be allocated at.
Handles == {"j1"}
\* The handles of the runs with two sessions side by side.
AllHandles == {"j1", "j2"}
NULL == "null"

\* Opaque context values threaded through the callbacks.
Ctxs == {"ctxA", "ctxB"}

Roles == 0 .. (MaxParties - 1)
\* Party indices the engine may pass, in range or not.
PartyIdx == -1 .. MaxParties
\* std::nullopt of role_for
NoRole == -1

Byte == {0, 1}
Msgs == UNION {[1 .. n -> Byte] : n \in 0 .. MaxLen}

\* cbmpc_go_transport: ctx and three function pointers (TRUE: non-null).
\* isnull marks the null table pointer handed to a constructor.
Table(c, s, r, ra) ==
    [isnull |-> FALSE, ctx |-> c, send |-> s, receive |-> r, receive_all |-> ra]

NullTable == [isnull |-> TRUE, ctx |-> NULL, send |-> FALSE, receive |-> FALSE,
              receive_all |-> FALSE]

\* Tables a caller passes: the complete one cbmpc_make_go_transport builds,
\* and tables with one callback left null.
Tables ==
    {Table(c, TRUE, TRUE, TRUE) : c \in Ctxs}
        \cup {Table("ctxA", FALSE, TRUE, TRUE), Table("ctxA", TRUE, FALSE, TRUE),
              Table("ctxA", TRUE, TRUE, FALSE)}

\* A names argument: a null array pointer, or an array of name pointers,
\* each a C string or null.
NullName == "null"
PName(i) == <<"P1", "P2", "P3", "P4", "P5">>[i]
NamesArg(n) ==
    {[isnull |-> TRUE, arr |-> <<>>]}
        \cup {[isnull |-> FALSE, arr |-> a] :
                a \in {[i \in 1 .. n |-> IF i \in bad THEN NullName ELSE PName(i)] :
                          bad \in {{}} \cup {{i} : i \in 1 .. n}}}

\* cmem_t: data pointer (0 is null, otherwise a block of the call's scratch
\* heap) and size.
NullView == [data |-> 0, size |-> 0]

\* The slot of a handle that holds no session.
NoJob == [kind |-> "none"]

\* The struct a caller passed a constructor after the caller released it:
\* whatever is read there is not what was passed.
Released == [isnull |-> FALSE, ctx |-> "freed", send |-> FALSE, receive |-> FALSE,
             receive_all |-> FALSE]

\* The arguments a session was constructed with; none for a handle that
\* stands for no session.
NoMade == [kind |-> "none"]
Made(k, t, self, pnames) ==
    [kind |-> k, ctx |-> t.ctx, send |-> t.send, receive |-> t.receive,
     receive_all |-> t.receive_all, self |-> self, names |-> pnames]

\* The threads of the caller, and the KEM handles they register (0: null).
Threads == {"t1", "t2", "t3"}
KemHandles == {1, 2}

(***************************************************************************)
(* The caller's network, as seen by the receive callbacks: the bytes that  *)
(* are waiting from each identity.                                         *)
(***************************************************************************)
NetA == [r \in Roles |-> <<r>>]
NetB == [r \in Roles |-> IF r = 0 THEN <<>> ELSE <<MaxParties - r, r>>]
Nets == {NetA, NetB}

(***************************************************************************)
(* Scratch heap of one call: block id -> contents and release count.       *)
(***************************************************************************)
Zeros(n) == [i \in 1 .. n |-> 0]

Block(b) == [bytes |-> b, frees |-> 0, wiped |-> FALSE]

\* coinbase::secure_bzero(p, n)
secure_bzero(mem, p, n) ==
    [mem EXCEPT ![p].bytes = [i \in 1 .. Len(@) |-> IF i <= n THEN 0 ELSE @[i]]]

\* coinbase::cgo_free(p): free(NULL) does nothing.
cgo_free(mem, p) ==
    IF p = 0 THEN mem
    ELSE [mem EXCEPT ![p].frees = @ + 1,
                     ![p].wiped = (mem[p].bytes = Zeros(Len(mem[p].bytes)))]

\* free_cmem_view(view): zero, release, reset the view.
free_cmem_view(mem, view) ==
    LET m1 == IF view.data # 0 /\ view.size > 0
              THEN secure_bzero(mem, view.data, view.size) ELSE mem
    IN [mem |-> cgo_free(m1, view.data), view |-> NullView]

\* buf_t(data, size): a copy of size bytes read at data.
buf_t(mem, view) ==
    IF view.data = 0 \/ view.size <= 0 THEN <<>>
    ELSE SubSeq(mem[view.data].bytes, 1, view.size)

(***************************************************************************)
(* Transport adapter (go_transport_base, go_transport_2p, go_transport_mp).*)
(* An adapter is [vtable, index_to_role].  env is what the caller's        *)
(* callback does when it is invoked: rc its status, net the bytes waiting  *)
(* per identity, filled how many of the out views it filled.               *)
(***************************************************************************)
role_for(index_to_role, idx) ==
    IF idx < 0 THEN NoRole
    ELSE IF idx >= Len(index_to_role) THEN NoRole
    ELSE index_to_role[idx + 1]

\* The view a receive callback leaves for identity role in scratch block blk.
\* An empty message is handed over as the null view.
CbView(env, role, blk) ==
    IF env.net[role] = <<>> THEN NullView
    ELSE [data |-> blk, size |-> Len(env.net[role])]

\* The out views after a receive callback for roles (a sequence): the first
\* env.filled are filled, the rest stay null.
CbOuts(env, roles) ==
    [i \in 1 .. Len(roles) |->
        IF i <= env.filled THEN CbView(env, roles[i], i) ELSE NullView]

\* The scratch heap a receive callback leaves behind.
CbMem(env, roles) ==
    [i \in 1 .. Len(roles) |->
        Block(IF i <= env.filled THEN env.net[roles[i]] ELSE <<>>)]

\* A send that hands the callback the receiver's neighbour in the mapping.
send_to_neighbour(tr, receiver, msg, env) ==
    IF ~tr.vtable.send THEN [rv |-> E_NET_GENERAL, log |-> <<>>]
    ELSE LET role == role_for(tr.index_to_role, receiver) IN
         IF role = NoRole THEN [rv |-> E_BADARG, log |-> <<>>]
         ELSE [rv |-> IF env.rc = 0 THEN SUCCESS ELSE E_NET_GENERAL,
               log |-> <<[ev |-> "send", ctx |-> tr.vtable.ctx,
                          role |-> tr.index_to_role[Len(tr.index_to_role) - receiver],
                          bytes |-> msg, rc |-> env.rc]>>]

go_transport_base_send(tr, receiver, msg, env) ==
    IF ~tr.vtable.send THEN [rv |-> E_NET_GENERAL, log |-> <<>>]
    ELSE LET role == role_for(tr.index_to_role, receiver) IN
         IF role = NoRole THEN [rv |-> E_BADARG, log |-> <<>>]
         ELSE [rv |-> IF env.rc = 0 THEN SUCCESS ELSE E_NET_GENERAL,
               log |-> <<[ev |-> "send", ctx |-> tr.vtable.ctx, role |-> role,
                          bytes |-> msg, rc |-> env.rc]>>]

\* receive(sender, msg): msg0 is the engine's buffer before the call.
go_transport_base_receive(tr, sender, msg0, env) ==
    IF ~tr.vtable.receive
    THEN [rv |-> E_NET_GENERAL, msg |-> msg0, mem |-> <<>>, log |-> <<>>]
    ELSE LET role == role_for(tr.index_to_role, sender) IN
         IF role = NoRole
         THEN [rv |-> E_BADARG, msg |-> msg0, mem |-> <<>>, log |-> <<>>]
         ELSE LET out == CbOuts(env, <<role>>)[1]
                  mem == CbMem(env, <<role>>)
                  cb  == [ev |-> "receive", ctx |-> tr.vtable.ctx,
                          roles |-> <<role>>, outs |-> <<out>>, env |-> env]
                  f   == free_cmem_view(mem, out)
              IN IF env.rc # 0
                 THEN [rv |-> E_NET_GENERAL, msg |-> msg0, mem |-> f.mem,
                       log |-> <<cb>>]
                 ELSE [rv |-> SUCCESS, msg |-> buf_t(mem, out), mem |-> f.mem,
                       log |-> <<cb>>]

\* A two-party receive_all that only refuses the empty sender list.
receive_all_first_sender(tr, senders, message0, env) ==
    IF Len(senders) < 1
    THEN [rv |-> E_BADARG, message |-> message0, mem |-> <<>>, log |-> <<>>]
    ELSE LET msg0 == IF Len(message0) >= 1 THEN message0[1] ELSE <<>>
             r == go_transport_base_receive(tr, senders[1], msg0, env)
         IN [rv |-> r.rv, message |-> <<r.msg>>, mem |-> r.mem, log |-> r.log]

\* go_transport_2p::receive_all(senders, message)
go_transport_2p_receive_all(tr, senders, message0, env) ==
    IF Len(senders) # 1
    THEN [rv |-> E_BADARG, message |-> message0, mem |-> <<>>, log |-> <<>>]
    ELSE LET msg0 == IF Len(message0) >= 1 THEN message0[1] ELSE <<>>
             r == go_transport_base_receive(tr, senders[1], msg0, env)
         IN [rv |-> r.rv, message |-> <<r.msg>>, mem |-> r.mem, log |-> r.log]

\* A failure path that returns without releasing the out views.
FreeNone(mem, outs, i) == mem

\* The loop that releases every out view after a failed batched callback.
RECURSIVE FreeAll(_, _, _)
FreeAll(mem, outs, i) ==
    IF i > Len(outs) THEN mem
    ELSE FreeAll(free_cmem_view(mem, outs[i]).mem, outs, i + 1)

\* A copy loop that fills message from the last out view to the first.
RECURSIVE CopyAllReversed(_, _, _, _)
CopyAllReversed(mem, outs, message, i) ==
    IF i > Len(outs) THEN [mem |-> mem, message |-> message]
    ELSE CopyAllReversed(free_cmem_view(mem, outs[i]).mem, outs,
                 [message EXCEPT ![Len(outs) + 1 - i] = buf_t(mem, outs[i])], i + 1)

\* The loop that copies each out view into message[i] and releases it.
RECURSIVE CopyAll(_, _, _, _)
CopyAll(mem, outs, message, i) ==
    IF i > Len(outs) THEN [mem |-> mem, message |-> message]
    ELSE CopyAll(free_cmem_view(mem, outs[i]).mem, outs,
                 [message EXCEPT ![i] = buf_t(mem, outs[i])], i + 1)

\* go_transport_mp::receive_all(senders, message)
go_transport_mp_receive_all(tr, senders, message0, env) ==
    IF ~tr.vtable.receive_all
    THEN [rv |-> E_NET_GENERAL, message |-> message0, mem |-> <<>>, log |-> <<>>]
    ELSE LET n == Len(senders)
             resized == [i \in 1 .. n |-> IF i <= Len(message0) THEN message0[i] ELSE <<>>]
             roles == [i \in 1 .. n |-> role_for(tr.index_to_role, senders[i])]
         IN IF n = 0
            THEN [rv |-> SUCCESS, message |-> resized, mem |-> <<>>, log |-> <<>>]
            ELSE IF \E i \in 1 .. n : roles[i] = NoRole
            THEN [rv |-> E_BADARG, message |-> resized, mem |-> <<>>, log |-> <<>>]
            ELSE LET outs == CbOuts(env, roles)
                     mem  == CbMem(env, roles)
                     cb   == [ev |-> "receive_all", ctx |-> tr.vtable.ctx,
                              roles |-> roles, outs |-> outs, env |-> env]
                 IN IF env.rc # 0
                    THEN [rv |-> E_NET_GENERAL, message |-> resized,
                          mem |-> FreeAll(mem, outs, 1), log |-> <<cb>>]
                    ELSE LET c == CopyAll(mem, outs, resized, 1)
                         IN [rv |-> SUCCESS, message |-> c.message,
                             mem |-> c.mem, log |-> <<cb>>]

(***************************************************************************)
(* Sessions (go_job2p, go_jobmp).  A live session records the adapter's    *)
(* copy of the callback table and its index-to-identity mapping, the       *)
(* engine job's party index and names, and which of its three heap         *)
(* objects exist: the wrapper, the engine job, and the adapter with the    *)
(* number of shared_ptr references to it.                                  *)
(***************************************************************************)
\* An adapter that keeps the pointer it was constructed with and reads the
\* caller's struct at every call.
vtable_by_pointer(j, table) ==
    [ctx |-> table.ctx, send |-> table.send, receive |-> table.receive,
     receive_all |-> table.receive_all]

\* go_transport_base::vtable: a const member, initialised with a copy of the
\* struct the constructor was given a pointer to; table is what the caller's
\* struct holds now.
vtable(j, table) == j.vtable

Adapter(j) == [vtable |-> j.vtable, index_to_role |-> j.index_to_role]

\* The wrapper a constructor returns: the adapter is referenced by the
\* wrapper and by the engine job.
NewJob(k, t, self, pnames, roles) ==
    [kind |-> k, vtable |-> [ctx |-> t.ctx, send |-> t.send,
                             receive |-> t.receive, receive_all |-> t.receive_all],
     index_to_role |-> roles, self |-> self, names |-> pnames, roles |-> roles,
     wrapper |-> TRUE, job |-> TRUE, adapter |-> TRUE, refs |-> 2]

NewLog == <<[ev |-> "alloc", what |-> "adapter"], [ev |-> "alloc", what |-> "job"],
            [ev |-> "alloc", what |-> "wrapper"]>>

\* A two-party constructor without the check of the local identity.
job2p_new_any_self(t, self, names) ==
    IF t.isnull \/ names.isnull THEN [handle |-> FALSE, obj |-> NoJob, log |-> <<>>]
    ELSE IF names.arr[1] = NullName \/ names.arr[2] = NullName
    THEN [handle |-> FALSE, obj |-> NoJob, log |-> <<>>]
    ELSE [handle |-> TRUE,
          obj |-> NewJob("2p", t, self, <<names.arr[1], names.arr[2]>>, <<0, 1>>),
          log |-> NewLog]

cbmpc_job2p_new(t, self, names) ==
    IF t.isnull \/ names.isnull THEN [handle |-> FALSE, obj |-> NoJob, log |-> <<>>]
    ELSE IF self > 1 THEN [handle |-> FALSE, obj |-> NoJob, log |-> <<>>]
    ELSE IF names.arr[1] = NullName \/ names.arr[2] = NullName
    THEN [handle |-> FALSE, obj |-> NoJob, log |-> <<>>]
    ELSE [handle |-> TRUE,
          obj |-> NewJob("2p", t, self, <<names.arr[1], names.arr[2]>>, <<0, 1>>),
          log |-> NewLog]

\* A multi-party constructor that only looks at the first name.
jobmp_new_first_name(t, self, n_parties, names) ==
    IF t.isnull \/ names.isnull THEN [handle |-> FALSE, obj |-> NoJob, log |-> <<>>]
    ELSE IF n_parties < 2 THEN [handle |-> FALSE, obj |-> NoJob, log |-> <<>>]
    ELSE IF self >= n_parties THEN [handle |-> FALSE, obj |-> NoJob, log |-> <<>>]
    ELSE IF names.arr[1] = NullName
    THEN [handle |-> FALSE, obj |-> NoJob, log |-> <<>>]
    ELSE [handle |-> TRUE,
          obj |-> NewJob("mp", t, self, [i \in 1 .. n_parties |-> names.arr[i]],
                         [i \in 1 .. n_parties |-> i - 1]),
          log |-> NewLog]

cbmpc_jobmp_new(t, self, n_parties, names) ==
    IF t.isnull \/ names.isnull THEN [handle |-> FALSE, obj |-> NoJob, log |-> <<>>]
    ELSE IF n_parties < 2 THEN [handle |-> FALSE, obj |-> NoJob, log |-> <<>>]
    ELSE IF self >= n_parties THEN [handle |-> FALSE, obj |-> NoJob, log |-> <<>>]
    ELSE IF \E i \in 1 .. n_parties : names.arr[i] = NullName
    THEN [handle |-> FALSE, obj |-> NoJob, log |-> <<>>]
    ELSE [handle |-> TRUE,
          obj |-> NewJob("mp", t, self, [i \in 1 .. n_parties |-> names.arr[i]],
                         [i \in 1 .. n_parties |-> i - 1]),
          log |-> NewLog]

\* ~unique_ptr<job_t>: the engine job is deleted and drops its reference to
\* the adapter.
destroy_job(s) ==
    [obj |-> [s.obj EXCEPT !.job = FALSE, !.refs = @ - 1],
     log |-> Append(s.log, [ev |-> "release", what |-> "job"])]

\* ~shared_ptr<data_transport_interface_t>: the last reference deletes the
\* adapter.
drop_transport(s) ==
    IF s.obj.refs = 1
    THEN [obj |-> [s.obj EXCEPT !.refs = 0, !.adapter = FALSE],
          log |-> Append(s.log, [ev |-> "release", what |-> "adapter"])]
    ELSE [obj |-> [s.obj EXCEPT !.refs = @ - 1], log |-> s.log]

\* A wrapper deletion that forgets the engine job.
delete_wrapper_only(obj) ==
    LET s == drop_transport([obj |-> obj, log |-> <<>>])
    IN [obj |-> [s.obj EXCEPT !.wrapper = FALSE],
        log |-> Append(s.log, [ev |-> "release", what |-> "wrapper"])]

\* delete wrapper: the members go in reverse order of declaration (roles,
\* job, transport), then the wrapper's storage.
delete_wrapper(obj) ==
    LET s == drop_transport(destroy_job([obj |-> obj, log |-> <<>>]))
    IN [obj |-> [s.obj EXCEPT !.wrapper = FALSE],
        log |-> Append(s.log, [ev |-> "release", what |-> "wrapper"])]

\* cbmpc_job2p_free / cbmpc_jobmp_free: delete of a null pointer does nothing.
cbmpc_job_free(isnull, obj) ==
    IF isnull THEN [obj |-> obj, log |-> <<>>] ELSE delete_wrapper(obj)

(***************************************************************************)
(* Operation entry points.  An input cmem_t is [data, size, bytes]: data   *)
(* is 0 for the null pointer, bytes is what can be read at data.  An       *)
(* output parameter holds Untouched until the entry point writes a view to *)
(* it.  heap is the sequence of blocks the call allocated for the caller.  *)
(* Each call of the engine is one event of the log; eng is what the engine *)
(* does when it is called, oks[k] whether the k-th malloc succeeds.        *)
(***************************************************************************)
MaxPoints == 2

Untouched == [data |-> -1, size |-> -1]

InMem(d, n, b) == [data |-> d, size |-> n, bytes |-> b]

\* The failure codes the engine can report.
EngineFailures == {E_BADARG, E_CRYPTO, E_NET_GENERAL, E_ECDSA_2P_BIT_LEAK}

\* A copy that reports the requested length although malloc failed.
alloc_and_copy_keep_size(heap, src, ok) ==
    IF Len(src) > 0
    THEN IF ~ok
         THEN [heap |-> heap, view |-> [data |-> 0, size |-> Len(src)],
               log |-> <<[ev |-> "alloc", ok |-> FALSE]>>]
         ELSE [heap |-> Append(heap, Block(src)),
               view |-> [data |-> Len(heap) + 1, size |-> Len(src)],
               log |-> <<[ev |-> "alloc", ok |-> TRUE]>>]
    ELSE [heap |-> heap, view |-> NullView, log |-> <<>>]

\* alloc_and_copy(src, n): a view the caller owns, or the null view when
\* malloc fails; nothing is allocated for n = 0.
alloc_and_copy(heap, src, ok) ==
    IF Len(src) > 0
    THEN IF ~ok
         THEN [heap |-> heap, view |-> NullView,
               log |-> <<[ev |-> "alloc", ok |-> FALSE]>>]
         ELSE [heap |-> Append(heap, Block(src)),
               view |-> [data |-> Len(heap) + 1, size |-> Len(src)],
               log |-> <<[ev |-> "alloc", ok |-> TRUE]>>]
    ELSE [heap |-> heap, view |-> NullView, log |-> <<>>]

\* The return of an entry point that wrote no output.
Refused(rv, log) ==
    [rv |-> rv, log |-> log, heap |-> <<>>, sid_out |-> Untouched, sig_out |-> Untouched]

\* The session id the engine holds after a run that was given sid0: a
\* non-empty one is used as it is, for an empty one the engine generates one.
engine_sid(sid0, eng) == IF sid0 = <<>> THEN eng.gen ELSE sid0

\* A signing entry point that never hands the caller's sid to the engine.
sign_fresh_sid(fn, a, eng, oks) ==
    IF \/ a.j = NULL \/ a.key \in {"null", "empty"}
       \/ a.msg.data = 0 \/ a.msg.size <= 0 \/ ~a.sid_out \/ ~a.sig_out
    THEN Refused(E_BADARG, <<>>)
    ELSE LET sid == engine_sid(<<>>, eng)
             run == <<[ev |-> "engine", fn |-> fn, rv |-> eng.rv,
                       sid_in |-> <<>>, sid |-> sid]>>
         IN IF eng.rv # SUCCESS THEN Refused(eng.rv, run)
            ELSE LET c1 == alloc_and_copy(<<>>, sid, TRUE)
                     c2 == alloc_and_copy(c1.heap, eng.sig, TRUE)
                 IN [rv |-> SUCCESS, log |-> run \o c1.log \o c2.log,
                     heap |-> c2.heap, sid_out |-> c1.view, sig_out |-> c2.view]

\* A signing entry point that reports every engine failure as E_CRYPTO.
sign_remapped(fn, a, eng, oks) ==
    IF \/ a.j = NULL \/ a.key \in {"null", "empty"}
       \/ a.msg.data = 0 \/ a.msg.size <= 0 \/ ~a.sid_out \/ ~a.sig_out
    THEN Refused(E_BADARG, <<>>)
    ELSE Refused(IF eng.rv # SUCCESS THEN E_CRYPTO ELSE SUCCESS,
                 <<[ev |-> "engine", fn |-> fn, rv |-> eng.rv]>>)

\* The body shared by cbmpc_ecdsa2p_sign and
\* cbmpc_ecdsa2p_sign_with_global_abort; fn is the engine function called.
\* a.j is the session handle (the engine job of a live session is never
\* null), a.key the key handle: "null", "empty" (null opaque) or "key".
\* The key field of an engine event tells how the engine got the caller's
\* key: "const" by reference to const, "copy" by mutable reference to a copy
\* made for the call, "mutable" by mutable reference to the caller's object.
ecdsa2p_sign_body(fn, a, eng, oks) ==
    IF \/ a.j = NULL \/ a.key \in {"null", "empty"}
       \/ a.msg.data = 0 \/ a.msg.size <= 0 \/ ~a.sid_out \/ ~a.sig_out
    THEN Refused(E_BADARG, <<>>)
    ELSE LET sid0 == IF a.sid_in.data # 0 /\ a.sid_in.size > 0
                     THEN a.sid_in.bytes ELSE <<>>
             sid  == engine_sid(sid0, eng)
             run  == <<[ev |-> "engine", fn |-> fn, rv |-> eng.rv,
                        sid_in |-> sid0, sid |-> sid, key |-> "const"]>>
         IN IF eng.rv # SUCCESS THEN Refused(eng.rv, run)
            ELSE LET c1 == alloc_and_copy(<<>>, sid, oks[1]) IN
                 IF c1.view.data = 0 /\ Len(sid) > 0
                 THEN [rv |-> E_BADARG, log |-> run \o c1.log, heap |-> c1.heap,
                       sid_out |-> c1.view, sig_out |-> Untouched]
                 ELSE LET c2 == alloc_and_copy(c1.heap, eng.sig, oks[2]) IN
                      IF c2.view.data = 0 /\ Len(eng.sig) > 0
                      THEN [rv |-> E_BADARG, log |-> run \o c1.log \o c2.log,
                            heap |-> cgo_free(secure_bzero(c2.heap, c1.view.data,
                                                           c1.view.size), c1.view.data),
                            sid_out |-> NullView, sig_out |-> c2.view]
                      ELSE [rv |-> SUCCESS, log |-> run \o c1.log \o c2.log,
                            heap |-> c2.heap, sid_out |-> c1.view, sig_out |-> c2.view]

cbmpc_ecdsa2p_sign(a, eng, oks) == ecdsa2p_sign_body("ecdsa2pc::sign", a, eng, oks)

cbmpc_ecdsa2p_sign_with_global_abort(a, eng, oks) ==
    ecdsa2p_sign_body("ecdsa2pc::sign_with_global_abort", a, eng, oks)

\* The empty buffer array.
NullViews == [data |-> 0, sizes |-> 0, count |-> 0]

RECURSIVE Concat(_)
Concat(vec) == IF vec = <<>> THEN <<>> ELSE Head(vec) \o Concat(Tail(vec))

\* std::free(p): the block is released as it is.
std_free(mem, p) == cgo_free(mem, p)

\* A vector copy that keeps the data block when the sizes array cannot be
\* allocated.
alloc_and_copy_vector_leak(heap, vec, oks) ==
    IF vec = <<>> \/ Len(Concat(vec)) = 0
    THEN [heap |-> heap, view |-> NullViews, log |-> <<>>]
    ELSE IF ~oks[1]
    THEN [heap |-> heap, view |-> NullViews, log |-> <<[ev |-> "alloc", ok |-> FALSE]>>]
    ELSE LET h1 == Append(heap, Block(Concat(vec))) IN
         IF ~oks[2]
         THEN [heap |-> h1, view |-> NullViews,
               log |-> <<[ev |-> "alloc", ok |-> TRUE], [ev |-> "alloc", ok |-> FALSE]>>]
         ELSE [heap |-> Append(h1, Block([i \in 1 .. Len(vec) |-> Len(vec[i])])),
               view |-> [data |-> Len(h1), sizes |-> Len(h1) + 1, count |-> Len(vec)],
               log |-> <<[ev |-> "alloc", ok |-> TRUE], [ev |-> "alloc", ok |-> TRUE]>>]

\* alloc_and_copy_vector(vec): one contiguous data block and one array of
\* sizes; oks[1] and oks[2] are the outcomes of the two mallocs.
alloc_and_copy_vector(heap, vec, oks) ==
    IF vec = <<>> THEN [heap |-> heap, view |-> NullViews, log |-> <<>>]
    ELSE IF Len(Concat(vec)) = 0
    THEN [heap |-> heap, view |-> NullViews, log |-> <<>>]
    ELSE IF ~oks[1]
    THEN [heap |-> heap, view |-> NullViews, log |-> <<[ev |-> "alloc", ok |-> FALSE]>>]
    ELSE LET h1 == Append(heap, Block(Concat(vec))) IN
         IF ~oks[2]
         THEN [heap |-> std_free(h1, Len(h1)), view |-> NullViews,
               log |-> <<[ev |-> "alloc", ok |-> TRUE], [ev |-> "alloc", ok |-> FALSE]>>]
         ELSE [heap |-> Append(h1, Block([i \in 1 .. Len(vec) |-> Len(vec[i])])),
               view |-> [data |-> Len(h1), sizes |-> Len(h1) + 1, count |-> Len(vec)],
               log |-> <<[ev |-> "alloc", ok |-> TRUE], [ev |-> "alloc", ok |-> TRUE]>>]

\* A vector copy that records the sizes from the last buffer to the first.
bindings_vector_reversed_sizes(heap, vec, oks) ==
    IF vec = <<>> THEN [heap |-> heap, view |-> NullViews, log |-> <<>>]
    ELSE LET h1 == Append(heap, Block(Concat(vec)))
         IN [heap |-> Append(h1, Block([i \in 1 .. Len(vec) |-> Len(vec[Len(vec) + 1 - i])])),
             view |-> [data |-> Len(h1), sizes |-> Len(h1) + 1, count |-> Len(vec)],
             log |-> <<[ev |-> "alloc", ok |-> TRUE], [ev |-> "alloc", ok |-> TRUE]>>]

\* alloc_and_copy_vector of src/internal/bindings: the data block is
\* allocated only when the total length is positive, the sizes array for
\* every non-empty list.
bindings_alloc_and_copy_vector(heap, vec, oks) ==
    IF vec = <<>> THEN [heap |-> heap, view |-> NullViews, log |-> <<>>]
    ELSE LET total == Len(Concat(vec))
             lens  == [i \in 1 .. Len(vec) |-> Len(vec[i])]
         IN IF total > 0 /\ ~oks[1]
            THEN [heap |-> heap, view |-> NullViews,
                  log |-> <<[ev |-> "alloc", ok |-> FALSE]>>]
            ELSE LET h1 == IF total > 0 THEN Append(heap, Block(Concat(vec))) ELSE heap
                     d  == IF total > 0 THEN Len(h1) ELSE 0
                     l1 == IF total > 0 THEN <<[ev |-> "alloc", ok |-> TRUE]>> ELSE <<>>
                 IN IF ~oks[2]
                    THEN [heap |-> std_free(h1, d), view |-> NullViews,
                          log |-> l1 \o <<[ev |-> "alloc", ok |-> FALSE]>>]
                    ELSE [heap |-> Append(h1, Block(lens)),
                          view |-> [data |-> d, sizes |-> Len(h1) + 1, count |-> Len(vec)],
                          log |-> l1 \o <<[ev |-> "alloc", ok |-> TRUE]>>]

\* An unpacking that reads every message at the start of the data block.
unpack_msgs_no_advance(data, sizes, count) ==
    [i \in 1 .. count |-> IF sizes[i] > 0 THEN SubSeq(data, 1, sizes[i]) ELSE <<>>]

\* The loop that turns an input buffer array into the engine's list of
\* messages: message i is sizes[i] bytes at the running offset, or the
\* empty message (nullptr, 0) when sizes[i] <= 0, which leaves the offset
\* where it is.  msg_vec is the list built so far.
RECURSIVE unpack_loop(_, _, _, _, _, _)
unpack_loop(data, sizes, count, i, offset, msg_vec) ==
    IF i > count THEN msg_vec
    ELSE LET size == sizes[i] IN
         IF size > 0
         THEN unpack_loop(data, sizes, count, i + 1, offset + size,
                          Append(msg_vec, SubSeq(data, offset + 1, offset + size)))
         ELSE unpack_loop(data, sizes, count, i + 1, offset, Append(msg_vec, <<>>))

unpack_msgs(data, sizes, count) == unpack_loop(data, sizes, count, 1, 0, <<>>)

\* The loop of cbmpc_uc_batch_dl_prove over w_scalars: the same offsets, but
\* an element of size <= 0 ends the call with E_BADARG.  w_vec is the list
\* of byte strings handed to bn_t::from_bin.
RECURSIVE unpack_scalars_loop(_, _, _, _, _, _)
unpack_scalars_loop(data, sizes, count, i, w_offset, w_vec) ==
    IF i > count THEN [rv |-> SUCCESS, w_vec |-> w_vec]
    ELSE LET size == sizes[i] IN
         IF size <= 0 THEN [rv |-> E_BADARG, w_vec |-> w_vec]
         ELSE unpack_scalars_loop(data, sizes, count, i + 1, w_offset + size,
                                  Append(w_vec, SubSeq(data, w_offset + 1, w_offset + size)))

unpack_scalars(data, sizes, count) == unpack_scalars_loop(data, sizes, count, 1, 0, <<>>)

\* The bytes behind a pointer of a buffer array; nothing behind null.
BytesAt(heap, p) == IF p = 0 THEN <<>> ELSE heap[p].bytes

\* The body shared by cbmpc_ecdsa2p_sign_batch and
\* cbmpc_ecdsa2p_sign_with_global_abort_batch.  a.msgs is the input buffer
\* array [data, sizes, count] (0 for a null pointer); the signatures are
\* copied without a check of the result.
ecdsa2p_sign_batch_body(fn, a, eng, oks) ==
    IF a.j = NULL \/ a.key \in {"null", "empty"} \/ ~a.sid_out \/ ~a.sig_out
    THEN Refused(E_BADARG, <<>>)
    ELSE IF a.msgs.count <= 0 \/ a.msgs.data = 0 \/ a.msgs.sizes = 0
    THEN Refused(E_BADARG, <<>>)
    ELSE LET sid0 == IF a.sid_in.data # 0 /\ a.sid_in.size > 0
                     THEN a.sid_in.bytes ELSE <<>>
             sid  == engine_sid(sid0, eng)
             run  == <<[ev |-> "alloc", ok |-> TRUE],
                       [ev |-> "engine", fn |-> fn, rv |-> eng.rv,
                        sid_in |-> sid0, sid |-> sid, key |-> "const"]>>
         IN IF eng.rv # SUCCESS THEN Refused(eng.rv, run)
            ELSE LET c1 == alloc_and_copy(<<>>, sid, oks[1]) IN
                 IF c1.view.data = 0 /\ Len(sid) > 0
                 THEN [rv |-> E_BADARG, log |-> run \o c1.log, heap |-> c1.heap,
                       sid_out |-> c1.view, sig_out |-> Untouched]
                 ELSE LET c2 == alloc_and_copy_vector(c1.heap, eng.sigs,
                                                      <<oks[2], oks[3]>>)
                      IN [rv |-> SUCCESS, log |-> run \o c1.log \o c2.log,
                          heap |-> c2.heap, sid_out |-> c1.view, sig_out |-> c2.view]

cbmpc_ecdsa2p_sign_batch(a, eng, oks) ==
    ecdsa2p_sign_batch_body("ecdsa2pc::sign_batch", a, eng, oks)

cbmpc_ecdsa2p_sign_with_global_abort_batch(a, eng, oks) ==
    ecdsa2p_sign_batch_body("ecdsa2pc::sign_with_global_abort_batch", a, eng, oks)

\* cbmpc_ecdsamp_refresh(j, sid_in, key_in, sid_out, key_out).  objs are the
\* objects the call created with whether they are still live at the return:
\* the copy of the old key (a local), the new key_t and the handle struct.
\* The handle out-parameter holds "unwritten" or the handle written to it.
cbmpc_ecdsamp_refresh(a, eng, oks) ==
    IF a.j = NULL \/ a.key \in {"null", "empty"} \/ ~a.sid_out \/ ~a.key_out
    THEN [rv |-> E_BADARG, log |-> <<>>, heap |-> <<>>, objs |-> <<>>,
          sid_out |-> Untouched, key_out |-> "unwritten"]
    ELSE LET sid0 == IF a.sid_in.data # 0 /\ a.sid_in.size > 0
                     THEN a.sid_in.bytes ELSE <<>>
             sid  == engine_sid(sid0, eng)
             run  == <<[ev |-> "new", what |-> "key_copy"], [ev |-> "new", what |-> "key_t"],
                       [ev |-> "engine", fn |-> "ecdsampc::refresh", rv |-> eng.rv,
                        sid_in |-> sid0, sid |-> sid, key |-> "copy"]>>
             dropped == <<[what |-> "key_copy", live |-> FALSE],
                          [what |-> "key_t", live |-> FALSE]>>
         IN IF eng.rv # SUCCESS
            THEN [rv |-> eng.rv, log |-> run, heap |-> <<>>, objs |-> dropped,
                  sid_out |-> Untouched, key_out |-> "unwritten"]
            ELSE LET c1 == alloc_and_copy(<<>>, sid, oks[1]) IN
                 IF c1.view.data = 0 /\ Len(sid) > 0
                 THEN [rv |-> E_BADARG, log |-> run \o c1.log, heap |-> c1.heap,
                       objs |-> dropped, sid_out |-> c1.view, key_out |-> "unwritten"]
                 ELSE [rv |-> SUCCESS,
                       log |-> run \o c1.log \o <<[ev |-> "new", what |-> "cbmpc_ecdsamp_key"]>>,
                       heap |-> c1.heap,
                       objs |-> <<[what |-> "key_copy", live |-> FALSE],
                                  [what |-> "key_t", live |-> TRUE],
                                  [what |-> "cbmpc_ecdsamp_key", live |-> TRUE]>>,
                       sid_out |-> c1.view, key_out |-> "handle"]

\* cbmpc_agree_random_2p(j, bitlen, out)
cbmpc_agree_random_2p(a, eng, oks) ==
    IF a.j = NULL \/ ~a.out THEN [rv |-> E_BADARG, log |-> <<>>, heap |-> <<>>,
                                  out |-> Untouched]
    ELSE LET run == <<[ev |-> "engine", fn |-> "agree_random", rv |-> eng.rv]>> IN
         IF eng.rv # SUCCESS
         THEN [rv |-> eng.rv, log |-> run, heap |-> <<>>, out |-> Untouched]
         ELSE LET c == alloc_and_copy(<<>>, eng.sig, oks[1])
              IN [rv |-> SUCCESS, log |-> run \o c.log, heap |-> c.heap, out |-> c.view]

\* cbmpc_uc_batch_dl_verify(proof_bytes, Q_points, Q_count, session_id, aux).
\* a.Q_points is [isnull, arr]; arr holds point handles, 0 for the null one.
cbmpc_uc_batch_dl_verify(a, eng) ==
    IF \/ a.proof.data = 0 \/ a.proof.size <= 0
       \/ a.Q_points.isnull \/ a.Q_count <= 0
       \/ a.session_id.data = 0 \/ a.session_id.size <= 0
    THEN [rv |-> E_BADARG, log |-> <<>>]
    ELSE LET deser == <<[ev |-> "engine", fn |-> "deser", rv |-> eng.deser]>> IN
         IF eng.deser # SUCCESS THEN [rv |-> eng.deser, log |-> deser]
         ELSE LET reserve == <<[ev |-> "alloc", ok |-> TRUE]>> IN
              IF \E i \in 1 .. a.Q_count : a.Q_points.arr[i] = 0
              THEN [rv |-> E_BADARG, log |-> deser \o reserve]
              ELSE [rv |-> eng.rv,
                    log |-> deser \o reserve \o
                            <<[ev |-> "engine", fn |-> "verify", rv |-> eng.rv]>>]

(***************************************************************************)
(* Handles to engine objects.  An object made with new is a record of what *)
(* it is and whether it is still allocated; a key handle is the wrapper    *)
(* struct's address and its opaque field (0 for null).                     *)
(***************************************************************************)
Obj(what) == [what |-> what, live |-> TRUE]

Gone(what) == [what |-> what, live |-> FALSE]

\* delete p, p being object i of objs.
Delete(objs, i) == [objs EXCEPT ![i].live = FALSE]

Deleted(what) == [ev |-> "delete", what |-> what]

NullKey == [isnull |-> TRUE, opaque |-> 0]
KeyHandle == [isnull |-> FALSE, opaque |-> 1]

NotCreated(rv, log, objs) == [rv |-> rv, log |-> log, objs |-> objs, key_out |-> "unwritten"]

\* cbmpc_ecdsa2p_key_deserialize(serialized, key): the key_t is owned by a
\* unique_ptr until the wrapper struct takes it.
cbmpc_ecdsa2p_key_deserialize(a, eng) ==
    IF a.serialized.data = 0 \/ a.serialized.size <= 0 \/ ~a.key
    THEN NotCreated(E_BADARG, <<>>, <<>>)
    ELSE LET run == <<[ev |-> "new", what |-> "ecdsa2pc::key_t"],
                      [ev |-> "engine", fn |-> "deserialize_ecdsa2p_key", rv |-> eng.rv]>>
         IN IF eng.rv # SUCCESS
            THEN NotCreated(eng.rv, run \o <<Deleted("ecdsa2pc::key_t")>>,
                            <<Gone("ecdsa2pc::key_t")>>)
            ELSE [rv |-> SUCCESS,
                  log |-> run \o <<[ev |-> "new", what |-> "cbmpc_ecdsa2p_key"]>>,
                  objs |-> <<Obj("ecdsa2pc::key_t"), Obj("cbmpc_ecdsa2p_key")>>,
                  key_out |-> "handle"]

\* cbmpc_schnorr2p_key_deserialize(serialized, key_out); eng.reader is false
\* when the converter reports an error, eng.curve when the curve is unknown,
\* eng.rv is the result of decoding the public point.
cbmpc_schnorr2p_key_deserialize(a, eng) ==
    IF a.serialized.data = 0 \/ a.serialized.size <= 0 \/ ~a.key
    THEN NotCreated(E_BADARG, <<>>, <<>>)
    ELSE LET alloc == <<[ev |-> "new", what |-> "key_share_2p_t"]>>
             drop == <<Deleted("key_share_2p_t")>>
             gone == <<Gone("key_share_2p_t")>>
             from_oct == <<[ev |-> "engine", fn |-> "from_oct", rv |-> eng.rv]>>
         IN IF ~eng.reader THEN NotCreated(E_CRYPTO, alloc \o drop, gone)
            ELSE IF ~eng.curve THEN NotCreated(E_BADARG, alloc \o drop, gone)
            ELSE IF eng.rv # SUCCESS
            THEN NotCreated(eng.rv, alloc \o from_oct \o drop, gone)
            ELSE [rv |-> SUCCESS,
                  log |-> alloc \o from_oct \o <<[ev |-> "new", what |-> "cbmpc_schnorr2p_key"]>>,
                  objs |-> <<Obj("key_share_2p_t"), Obj("cbmpc_schnorr2p_key")>>,
                  key_out |-> "handle"]

\* cbmpc_ecc_point_from_bytes(curve_nid, bytes, point_out); a.curve is false
\* when the curve is unknown.  The handle is the point itself.
cbmpc_ecc_point_from_bytes(a, eng) ==
    IF a.serialized.data = 0 \/ a.serialized.size <= 0 \/ ~a.key
    THEN NotCreated(E_BADARG, <<>>, <<>>)
    ELSE IF ~a.curve THEN NotCreated(E_BADARG, <<>>, <<>>)
    ELSE LET run == <<[ev |-> "new", what |-> "ecc_point_t"],
                      [ev |-> "engine", fn |-> "from_oct", rv |-> eng.rv]>>
         IN IF eng.rv # SUCCESS
            THEN NotCreated(eng.rv, run \o <<Deleted("ecc_point_t")>>,
                            <<Gone("ecc_point_t")>>)
            ELSE [rv |-> SUCCESS, log |-> run, objs |-> <<Obj("ecc_point_t")>>,
                  key_out |-> "handle"]

\* cbmpc_pve_get_Q_point(pve_ct, Q_point_out): the ciphertext is parsed into
\* a temporary ec_pve_t, and the point handed out is a copy of its Q made
\* with make_unique and released to the caller.
cbmpc_pve_get_Q_point(a, eng) ==
    IF a.pve_ct.data = 0 \/ a.pve_ct.size <= 0 \/ ~a.Q_point_out
    THEN NotCreated(E_BADARG, <<>>, <<>>)
    ELSE LET run == <<[ev |-> "new", what |-> "ec_pve_t"],
                      [ev |-> "engine", fn |-> "deser", rv |-> eng.rv]>>
         IN IF eng.rv # SUCCESS
            THEN NotCreated(eng.rv, run \o <<Deleted("ec_pve_t")>>, <<Gone("ec_pve_t")>>)
            ELSE [rv |-> SUCCESS,
                  log |-> run \o <<[ev |-> "new", what |-> "ecc_point_t"],
                                   Deleted("ec_pve_t")>>,
                  objs |-> <<Gone("ec_pve_t"), Obj("ecc_point_t")>>,
                  key_out |-> "handle"]

\* The key behind the handle the caller passes, and what is left of it when
\* the engine, which may write through a mutable reference, was given the
\* caller's object itself.
TheKey == [Q |-> <<2, 3>>, x_share |-> <<9, 9>>]

engine_key(e, key) == IF e.key = "mutable" THEN [key EXCEPT !.x_share = <<0, 0>>] ELSE key

\* The caller's key after the engine calls of log, in turn.
RECURSIVE KeyAfter(_, _)
KeyAfter(log, key) ==
    IF log = <<>> THEN key
    ELSE KeyAfter(Tail(log),
                  IF Head(log).ev = "engine" /\ "key" \in DOMAIN Head(log)
                  THEN engine_key(Head(log), key) ELSE key)

\* The return of an operation with one output buffer that was not written.
Declined(rv, log) == [rv |-> rv, log |-> log, heap |-> <<>>, out |-> Untouched]

\* A Schnorr signature that gives the engine the caller's key object.
schnorr2p_sign_in_place(a, eng, oks) ==
    IF \/ a.j = NULL \/ a.key \in {"null", "empty"}
       \/ a.msg.data = 0 \/ a.msg.size <= 0 \/ ~a.sig_out
    THEN Declined(E_BADARG, <<>>)
    ELSE LET run == <<[ev |-> "engine", fn |-> "schnorr2p::sign", rv |-> eng.rv,
                       key |-> "mutable"]>>
         IN IF eng.rv # SUCCESS THEN Declined(eng.rv, run)
            ELSE LET c == alloc_and_copy(<<>>, eng.sig, oks[1])
                 IN [rv |-> IF c.view.data = 0 /\ Len(eng.sig) > 0 THEN E_BADARG ELSE SUCCESS,
                     log |-> run \o c.log, heap |-> c.heap, out |-> c.view]

\* cbmpc_schnorr2p_sign(j, key, msg, variant, sig_out): the engine signs with
\* a copy of the key.
cbmpc_schnorr2p_sign(a, eng, oks) ==
    IF \/ a.j = NULL \/ a.key \in {"null", "empty"}
       \/ a.msg.data = 0 \/ a.msg.size <= 0 \/ ~a.sig_out
    THEN Declined(E_BADARG, <<>>)
    ELSE LET run == <<[ev |-> "new", what |-> "signing_key_copy"],
                      [ev |-> "engine", fn |-> "schnorr2p::sign", rv |-> eng.rv,
                       key |-> "copy"]>>
         IN IF eng.rv # SUCCESS THEN Declined(eng.rv, run)
            ELSE LET c == alloc_and_copy(<<>>, eng.sig, oks[1])
                 IN [rv |-> IF c.view.data = 0 /\ Len(eng.sig) > 0 THEN E_BADARG ELSE SUCCESS,
                     log |-> run \o c.log, heap |-> c.heap, out |-> c.view]

\* cbmpc_ecdsa2p_refresh(j, key_in, key_out): the engine reads the old key
\* through a pointer to const and fills a new key_t.
cbmpc_ecdsa2p_refresh(a, eng) ==
    IF a.j = NULL \/ a.key \in {"null", "empty"} \/ ~a.key_out
    THEN NotCreated(E_BADARG, <<>>, <<>>)
    ELSE LET run == <<[ev |-> "new", what |-> "ecdsa2pc::key_t"],
                      [ev |-> "engine", fn |-> "ecdsa2pc::refresh", rv |-> eng.rv,
                       key |-> "const"]>>
         IN IF eng.rv # SUCCESS
            THEN NotCreated(eng.rv, run \o <<Deleted("ecdsa2pc::key_t")>>,
                            <<Gone("ecdsa2pc::key_t")>>)
            ELSE [rv |-> SUCCESS,
                  log |-> run \o <<[ev |-> "new", what |-> "cbmpc_ecdsa2p_key"]>>,
                  objs |-> <<Obj("ecdsa2pc::key_t"), Obj("cbmpc_ecdsa2p_key")>>,
                  key_out |-> "handle"]

\* A release that leaves the engine object allocated.
key_free_wrapper_only(key, objs) ==
    IF key.isnull THEN [objs |-> objs, log |-> <<>>]
    ELSE [objs |-> Delete(objs, 2), log |-> <<Deleted(objs[2].what)>>]

\* cbmpc_ecdsa2p_key_free(key); objs are the engine object and the wrapper
\* struct the handle stands for.
cbmpc_ecdsa2p_key_free(key, objs) ==
    IF key.isnull THEN [objs |-> objs, log |-> <<>>]
    ELSE [objs |-> Delete(Delete(objs, 1), 2),
          log |-> <<Deleted(objs[1].what), Deleted(objs[2].what)>>]

\* cbmpc_schnorr2p_key_free(key)
cbmpc_schnorr2p_key_free(key, objs) ==
    IF ~key.isnull /\ key.opaque # 0
    THEN [objs |-> Delete(Delete(objs, 1), 2),
          log |-> <<Deleted(objs[1].what), Deleted(objs[2].what)>>]
    ELSE [objs |-> objs, log |-> <<>>]

\* cbmpc_ecc_point_free(point)
cbmpc_ecc_point_free(key, objs) ==
    IF ~key.isnull
    THEN [objs |-> Delete(objs, 1), log |-> <<Deleted(objs[1].what)>>]
    ELSE [objs |-> objs, log |-> <<>>]

(***************************************************************************)
(* The cgo layer (src/internal/cgo): byte outputs are a pointer and a      *)
(* length written through two out-parameters, modelled as one view         *)
(* [data, size]; its status codes are small positive integers.             *)
(***************************************************************************)
SUCCESS_CODE == 0
UNKNOWN_ERROR_CODE == 1
PARAM_ERROR_CODE == 2
MEMORY_ERROR_CODE == 3

\* The bytes of the public point and of the private share of the key behind
\* a key handle.
KeyQ == <<2, 3>>
KeyShare == <<9, 9>>

\* alloc_cmem(buf) of scalar.cpp: the size is set before malloc is called
\* and stays when malloc returns null.  For an empty buf ok says whether
\* malloc(0) returns a pointer.
alloc_cmem(buf, ok) ==
    IF ok
    THEN [heap |-> <<Block(buf)>>, view |-> [data |-> 1, size |-> Len(buf)],
          log |-> <<[ev |-> "alloc", ok |-> TRUE]>>]
    ELSE [heap |-> <<>>, view |-> [data |-> 0, size |-> Len(buf)],
          log |-> <<[ev |-> "alloc", ok |-> FALSE]>>]

\* bn_to_bytes(handle): handle is [isnull, bytes], bytes what to_bin gives.
bn_to_bytes(handle, env) ==
    IF handle.isnull THEN [heap |-> <<>>, view |-> NullView, log |-> <<>>]
    ELSE IF env.throws THEN [heap |-> <<>>, view |-> NullView, log |-> <<>>]
    ELSE alloc_cmem(handle.bytes, env.ok)

\* The body shared by the two getters: the length is written first, then the
\* pointer malloc returned.  env.throws: the serialization throws; env.ok:
\* malloc succeeds.
export_bytes(a, bytes, env) ==
    IF a.key \in {"null", "empty"} \/ ~a.out \/ ~a.out_len
    THEN [rv |-> PARAM_ERROR_CODE, log |-> <<>>, heap |-> <<>>, out |-> Untouched]
    ELSE IF env.throws
    THEN [rv |-> UNKNOWN_ERROR_CODE, log |-> <<>>, heap |-> <<>>, out |-> Untouched]
    ELSE IF ~env.ok
    THEN [rv |-> MEMORY_ERROR_CODE, log |-> <<[ev |-> "alloc", ok |-> FALSE]>>,
          heap |-> <<>>, out |-> [data |-> 0, size |-> Len(bytes)]]
    ELSE [rv |-> SUCCESS_CODE, log |-> <<[ev |-> "alloc", ok |-> TRUE]>>,
          heap |-> <<Block(bytes)>>, out |-> [data |-> 1, size |-> Len(bytes)]]

ecdsa_2p_key_get_public_key(a, env) == export_bytes(a, KeyQ, env)

ecdsa_2p_key_get_private_share(a, env) == export_bytes(a, KeyShare, env)

\* ecdsa_2p_free_buffer(buffer): free of a non-null pointer; the function
\* does not know the length of the buffer.
ecdsa_2p_free_buffer(mem, buffer) == IF buffer # 0 THEN std_free(mem, buffer) ELSE mem

\* ecdsa_2p_keygen(session, curve_code, key).  env.job is what new_job_2p
\* returns (null, a job without engine object, a job), env.throws is where
\* an exception is raised inside the try block, env.rv is the result of dkg.
\* The catch block returns without releasing anything.
ecdsa_2p_keygen(a, env) ==
    IF ~a.session \/ ~a.key THEN NotCreated(PARAM_ERROR_CODE, <<>>, <<>>)
    ELSE IF env.job = "null"
    THEN NotCreated(MEMORY_ERROR_CODE, <<[ev |-> "new_job_2p", ok |-> FALSE]>>, <<>>)
    ELSE LET job == <<[ev |-> "new_job_2p", ok |-> TRUE]>>
             free_job == <<Deleted("job_2p_ref")>>
             key == <<[ev |-> "new", what |-> "ecdsa_2p_key_internal"]>>
             dkg == <<[ev |-> "engine", fn |-> "ecdsa2pc::dkg", rv |-> env.rv]>>
         IN IF env.job = "no_opaque"
            THEN NotCreated(PARAM_ERROR_CODE, job \o free_job, <<Gone("job_2p_ref")>>)
            ELSE IF env.throws = "new"
            THEN NotCreated(UNKNOWN_ERROR_CODE, job \o <<[ev |-> "throw"]>>,
                            <<Obj("job_2p_ref")>>)
            ELSE IF env.throws = "dkg"
            THEN NotCreated(UNKNOWN_ERROR_CODE, job \o key \o <<[ev |-> "throw"]>>,
                            <<Obj("job_2p_ref"), Obj("ecdsa_2p_key_internal")>>)
            ELSE IF env.rv # SUCCESS_CODE
            THEN NotCreated(env.rv,
                            job \o key \o dkg \o <<Deleted("ecdsa_2p_key_internal")>> \o free_job,
                            <<Gone("job_2p_ref"), Gone("ecdsa_2p_key_internal")>>)
            ELSE [rv |-> SUCCESS_CODE, log |-> job \o key \o dkg \o free_job,
                  objs |-> <<Gone("job_2p_ref"), Obj("ecdsa_2p_key_internal")>>,
                  key_out |-> "handle"]

\* The return of ecdsa_2p_sign when no signature was handed out.
Unsigned(rv, log, objs) ==
    [rv |-> rv, log |-> log, objs |-> objs, heap |-> <<>>, out |-> Untouched]

\* ecdsa_2p_sign(session, key, message_hash, hash_len, signature, sig_len).
\* env.job and env.rv are as in ecdsa_2p_keygen, env.throws tells whether the
\* engine call raises an exception, env.sigs is the list of signatures the
\* engine produced, env.ok the outcome of malloc.  The engine takes the key
\* by reference to const.
ecdsa_2p_sign(a, env) ==
    IF \/ ~a.session \/ a.key \in {"null", "empty"} \/ ~a.message_hash
       \/ ~a.signature \/ ~a.sig_len
    THEN Unsigned(PARAM_ERROR_CODE, <<>>, <<>>)
    ELSE IF env.job = "null"
    THEN Unsigned(MEMORY_ERROR_CODE, <<[ev |-> "new_job_2p", ok |-> FALSE]>>, <<>>)
    ELSE LET job == <<[ev |-> "new_job_2p", ok |-> TRUE]>>
             free_job == <<Deleted("job_2p_ref")>>
             sign == <<[ev |-> "engine", fn |-> "ecdsa2pc::sign_with_global_abort_batch",
                        rv |-> env.rv, key |-> "const"]>>
         IN IF env.job = "no_opaque"
            THEN Unsigned(PARAM_ERROR_CODE, job \o free_job, <<Gone("job_2p_ref")>>)
            ELSE IF env.throws = "engine"
            THEN Unsigned(UNKNOWN_ERROR_CODE, job \o <<[ev |-> "throw"]>>,
                          <<Obj("job_2p_ref")>>)
            ELSE IF env.rv # SUCCESS_CODE
            THEN Unsigned(env.rv, job \o sign \o free_job, <<Gone("job_2p_ref")>>)
            ELSE IF env.sigs = <<>>
            THEN Unsigned(UNKNOWN_ERROR_CODE, job \o sign \o free_job,
                          <<Gone("job_2p_ref")>>)
            ELSE IF ~env.ok
            THEN [rv |-> MEMORY_ERROR_CODE,
                  log |-> job \o sign \o <<[ev |-> "alloc", ok |-> FALSE]>> \o free_job,
                  objs |-> <<Gone("job_2p_ref")>>, heap |-> <<>>,
                  out |-> [data |-> 0, size |-> Len(env.sigs[1])]]
            ELSE [rv |-> SUCCESS_CODE,
                  log |-> job \o sign \o <<[ev |-> "alloc", ok |-> TRUE]>> \o free_job,
                  objs |-> <<Gone("job_2p_ref")>>, heap |-> <<Block(env.sigs[1])>>,
                  out |-> [data |-> 1, size |-> Len(env.sigs[1])]]

\* ecdsa_2p_refresh(session, old_key, new_key): as ecdsa_2p_keygen, with the
\* old key read by the engine through a reference to const.
ecdsa_2p_refresh(a, env) ==
    IF ~a.session \/ a.key \in {"null", "empty"} \/ ~a.new_key
    THEN NotCreated(PARAM_ERROR_CODE, <<>>, <<>>)
    ELSE IF env.job = "null"
    THEN NotCreated(MEMORY_ERROR_CODE, <<[ev |-> "new_job_2p", ok |-> FALSE]>>, <<>>)
    ELSE LET job == <<[ev |-> "new_job_2p", ok |-> TRUE]>>
             free_job == <<Deleted("job_2p_ref")>>
             key == <<[ev |-> "new", what |-> "ecdsa_2p_key_internal"]>>
             refresh == <<[ev |-> "engine", fn |-> "ecdsa2pc::refresh", rv |-> env.rv,
                           key |-> "const"]>>
         IN IF env.job = "no_opaque"
            THEN NotCreated(PARAM_ERROR_CODE, job \o free_job, <<Gone("job_2p_ref")>>)
            ELSE IF env.throws = "new"
            THEN NotCreated(UNKNOWN_ERROR_CODE, job \o <<[ev |-> "throw"]>>,
                            <<Obj("job_2p_ref")>>)
            ELSE IF env.throws = "engine"
            THEN NotCreated(UNKNOWN_ERROR_CODE, job \o key \o <<[ev |-> "throw"]>>,
                            <<Obj("job_2p_ref"), Obj("ecdsa_2p_key_internal")>>)
            ELSE IF env.rv # SUCCESS_CODE
            THEN NotCreated(env.rv,
                            job \o key \o refresh \o <<Deleted("ecdsa_2p_key_internal")>>
                                \o free_job,
                            <<Gone("job_2p_ref"), Gone("ecdsa_2p_key_internal")>>)
            ELSE [rv |-> SUCCESS_CODE, log |-> job \o key \o refresh \o free_job,
                  objs |-> <<Gone("job_2p_ref"), Obj("ecdsa_2p_key_internal")>>,
                  key_out |-> "handle"]

\* ecdsa_2p_key_free(key): the key struct belongs to the caller, objs is the
\* internal key its opaque field points to.
ecdsa_2p_key_free(key, objs) ==
    IF ~key.isnull /\ key.opaque # 0
    THEN [objs |-> Delete(objs, 1), log |-> <<Deleted(objs[1].what)>>,
          key |-> [key EXCEPT !.opaque = 0]]
    ELSE [objs |-> objs, log |-> <<>>, key |-> key]

(***************************************************************************)
(* Key serialization.  A serialized key is a byte string written and read  *)
(* field by field through the engine's converter_t: a 32-bit integer is    *)
(* four bytes, most significant first; a buffer is its length followed by  *)
(* its bytes (lengths stay below 128, where the length takes one byte).    *)
(* A point is a curve and an x coordinate; a big number is a natural.      *)
(***************************************************************************)
write_u32(n) == <<(n \div 16777216) % 256, (n \div 65536) % 256, (n \div 256) % 256, n % 256>>

write_buf(b) == <<Len(b)>> \o b

\* converter_t reader(serialized): the bytes, the read position and the
\* error flag, which stays set once a read ran past the end.
Reader(buf) == [buf |-> buf, pos |-> 1, err |-> FALSE]

Failed(r) == [r EXCEPT !.err = TRUE]

read_u32(r) ==
    IF r.err \/ r.pos + 3 > Len(r.buf) THEN [r |-> Failed(r), v |-> 0]
    ELSE [r |-> [r EXCEPT !.pos = @ + 4],
          v |-> r.buf[r.pos] * 16777216 + r.buf[r.pos + 1] * 65536
                + r.buf[r.pos + 2] * 256 + r.buf[r.pos + 3]]

read_buf(r) ==
    IF r.err \/ r.pos > Len(r.buf) THEN [r |-> Failed(r), v |-> <<>>]
    ELSE LET n == r.buf[r.pos] IN
         IF r.pos + n > Len(r.buf) THEN [r |-> Failed(r), v |-> <<>>]
         ELSE [r |-> [r EXCEPT !.pos = @ + 1 + n],
               v |-> SubSeq(r.buf, r.pos + 1, r.pos + n)]

\* bn_t::to_bin(): big-endian, no leading zero byte; zero is the empty string.
RECURSIVE bn_t_to_bin(_)
bn_t_to_bin(x) == IF x = 0 THEN <<>> ELSE Append(bn_t_to_bin(x \div 256), x % 256)

RECURSIVE bn_t_from_bin(_)
bn_t_from_bin(b) ==
    IF b = <<>> THEN 0 ELSE bn_t_from_bin(SubSeq(b, 1, Len(b) - 1)) * 256 + b[Len(b)]

\* The curves ecurve_t::find knows, by OpenSSL NID; 0 stands for no curve.
KnownNids == {415, 715, 716, 714, 1087}

find_curve_by_nid(nid) == IF nid \in KnownNids THEN nid ELSE 0

nid_to_curve_enum(nid) ==
    CASE nid = 415 -> 1
      [] nid = 715 -> 2
      [] nid = 716 -> 3
      [] nid = 714 -> 4
      [] nid = 1087 -> 5
      [] OTHER -> 0

\* The x coordinates of the points used, and the y coordinate of each.
PointXs == {11, 12}
PointY(x) == x + 100
NoPoint == [curve |-> 0, x |-> 0]
Point(curve, x) == [curve |-> curve, x |-> x]

\* ecc_point_t::to_compressed_bin(): tag and x coordinate.
to_compressed_bin(P) == <<2, P.x>>

\* ecc_point_t::to_oct(): tag, x and y coordinate.
to_oct(P) == <<4, P.x, PointY(P.x)>>

\* ecc_point_t::from_bin(curve, bin) and from_oct(curve, bin): both forms
\* are accepted; anything else is an error.
from_bin(curve, bin) ==
    IF Len(bin) = 2 /\ bin[1] = 2 /\ bin[2] \in PointXs
    THEN [rv |-> SUCCESS, P |-> Point(curve, bin[2])]
    ELSE IF Len(bin) = 3 /\ bin[1] = 4 /\ bin[2] \in PointXs /\ bin[3] = PointY(bin[2])
    THEN [rv |-> SUCCESS, P |-> Point(curve, bin[2])]
    ELSE [rv |-> E_CRYPTO, P |-> NoPoint]

from_oct(curve, bin) == from_bin(curve, bin)

\* paillier_t::convert: the modulus as a buffer.
paillier_write(p) == write_buf(bn_t_to_bin(p))

paillier_read(r) == LET b == read_buf(r) IN [r |-> b.r, v |-> bn_t_from_bin(b.v)]

\* A key that deserialization gave up on.
NoKey == [curve |-> 0]

\* serialize_ecdsa2p_key(key)
serialize_ecdsa2p_key(key) ==
    write_u32(key.role) \o write_u32(key.curve)
        \o write_buf(to_compressed_bin(key.Q))
        \o write_buf(bn_t_to_bin(key.x_share))
        \o write_buf(bn_t_to_bin(key.c_key))
        \o paillier_write(key.paillier)

\* A reader that takes c_key for x_share and x_share for c_key.
deserialize_ecdsa2p_key_swapped(serialized) ==
    LET role == read_u32(Reader(serialized))
        nid == read_u32(role.r)
        Q_bin == read_buf(nid.r)
        x_share_bin == read_buf(Q_bin.r)
        c_key_bin == read_buf(x_share_bin.r)
        paillier == paillier_read(c_key_bin.r)
        curve == find_curve_by_nid(nid.v)
        Q == from_bin(curve, Q_bin.v)
    IN IF paillier.r.err THEN [rv |-> E_CRYPTO, key |-> NoKey]
       ELSE IF curve = 0 THEN [rv |-> E_BADARG, key |-> NoKey]
       ELSE IF Q.rv # SUCCESS THEN [rv |-> E_CRYPTO, key |-> NoKey]
       ELSE [rv |-> SUCCESS,
             key |-> [role |-> role.v, curve |-> curve, Q |-> Q.P,
                      x_share |-> bn_t_from_bin(c_key_bin.v),
                      c_key |-> bn_t_from_bin(x_share_bin.v),
                      paillier |-> paillier.v]]

\* deserialize_ecdsa2p_key(serialized, key)
deserialize_ecdsa2p_key(serialized) ==
    LET role == read_u32(Reader(serialized))
        nid == read_u32(role.r)
        Q_bin == read_buf(nid.r)
        x_share_bin == read_buf(Q_bin.r)
        c_key_bin == read_buf(x_share_bin.r)
        paillier == paillier_read(c_key_bin.r)
        curve == find_curve_by_nid(nid.v)
        Q == from_bin(curve, Q_bin.v)
    IN IF paillier.r.err THEN [rv |-> E_CRYPTO, key |-> NoKey]
       ELSE IF curve = 0 THEN [rv |-> E_BADARG, key |-> NoKey]
       ELSE IF Q.rv # SUCCESS THEN [rv |-> E_CRYPTO, key |-> NoKey]
       ELSE [rv |-> SUCCESS,
             key |-> [role |-> role.v, curve |-> curve, Q |-> Q.P,
                      x_share |-> bn_t_from_bin(x_share_bin.v),
                      c_key |-> bn_t_from_bin(c_key_bin.v),
                      paillier |-> paillier.v]]

\* cbmpc_schnorr2p_key_serialize: the bytes written before they are copied out.
serialize_schnorr2p_key(key) ==
    write_u32(key.role) \o write_u32(key.curve)
        \o write_buf(to_oct(key.Q))
        \o write_buf(bn_t_to_bin(key.x_share))

\* cbmpc_schnorr2p_key_deserialize: the reconstruction of the key.
deserialize_schnorr2p_key(serialized) ==
    LET role == read_u32(Reader(serialized))
        nid == read_u32(role.r)
        Q_bin == read_buf(nid.r)
        x_share_bin == read_buf(Q_bin.r)
        curve == find_curve_by_nid(nid.v)
        Q == from_oct(curve, Q_bin.v)
    IN IF x_share_bin.r.err THEN [rv |-> E_CRYPTO, key |-> NoKey]
       ELSE IF curve = 0 THEN [rv |-> E_BADARG, key |-> NoKey]
       ELSE IF Q.rv # SUCCESS THEN [rv |-> Q.rv, key |-> NoKey]
       ELSE [rv |-> SUCCESS,
             key |-> [role |-> role.v, curve |-> curve, Q |-> Q.P,
                      x_share |-> bn_t_from_bin(x_share_bin.v)]]

\* The order in which std::map walks party names: byte by byte, a proper
\* prefix first.
RECURSIVE NameLess(_, _)
NameLess(a, b) ==
    IF a = <<>> THEN b # <<>>
    ELSE IF b = <<>> THEN FALSE
    ELSE IF a[1] # b[1] THEN a[1] < b[1]
    ELSE NameLess(Tail(a), Tail(b))

RECURSIVE SortedNames(_)
SortedNames(S) ==
    IF S = {} THEN <<>>
    ELSE LET m == CHOOSE a \in S : \A b \in S \ {a} : NameLess(a, b)
         IN <<m>> \o SortedNames(S \ {m})

\* Every buffer of a list written in turn.
RECURSIVE write_bufs(_)
write_bufs(bufs) ==
    IF bufs = <<>> THEN <<>> ELSE write_buf(Head(bufs)) \o write_bufs(Tail(bufs))

\* n buffers read in turn; the loop stops at the first failed read.
RECURSIVE read_bufs(_, _)
read_bufs(r, n) ==
    IF n = 0 THEN [r |-> r, v |-> <<>>]
    ELSE LET b == read_buf(r) IN
         IF b.r.err THEN [r |-> b.r, v |-> <<>>]
         ELSE LET rest == read_bufs(b.r, n - 1)
              IN [r |-> rest.r, v |-> <<b.v>> \o rest.v]

\* serialize_ecdsamp_key(key): the names of the Qis map, then its points, both
\* in the order of the map.
serialize_ecdsamp_key(key) ==
    LET qis_names == SortedNames(DOMAIN key.Qis)
        qis_points == [i \in 1 .. Len(qis_names) |-> to_compressed_bin(key.Qis[qis_names[i]])]
    IN write_u32(key.curve)
           \o write_buf(to_compressed_bin(key.Q))
           \o write_buf(bn_t_to_bin(key.x_share))
           \o write_buf(key.party_name)
           \o write_u32(Len(qis_names))
           \o write_bufs(qis_names)
           \o write_bufs(qis_points)

\* The map built by the second loop of the reader: names[i] gets points[i];
\* a name read twice keeps the point read last.
QisOf(names, points) ==
    [n \in {names[i] : i \in 1 .. Len(names)} |->
        points[CHOOSE i \in 1 .. Len(names) :
                 names[i] = n /\ \A j \in i + 1 .. Len(names) : names[j] # n]]

\* A reader that gives the points to the names in the opposite order.
deserialize_ecdsamp_key_reversed(serialized) ==
    LET nid == read_u32(Reader(serialized))
        Q_bin == read_buf(nid.r)
        x_share_bin == read_buf(Q_bin.r)
        party_name_buf == read_buf(x_share_bin.r)
        qis_count == read_u32(party_name_buf.r)
        curve == find_curve_by_nid(nid.v)
        Q == from_bin(curve, Q_bin.v)
        names == read_bufs(qis_count.r, qis_count.v)
        bins == read_bufs(names.r, Len(names.v))
        points == [i \in 1 .. Len(bins.v) |-> from_bin(curve, bins.v[Len(bins.v) + 1 - i])]
    IN IF qis_count.r.err THEN [rv |-> E_CRYPTO, key |-> NoKey]
       ELSE IF curve = 0 THEN [rv |-> E_BADARG, key |-> NoKey]
       ELSE IF Q.rv # SUCCESS THEN [rv |-> E_CRYPTO, key |-> NoKey]
       ELSE IF names.r.err \/ bins.r.err THEN [rv |-> E_CRYPTO, key |-> NoKey]
       ELSE IF \E i \in 1 .. Len(points) : points[i].rv # SUCCESS
       THEN [rv |-> E_CRYPTO, key |-> NoKey]
       ELSE [rv |-> SUCCESS,
             key |-> [curve |-> curve, Q |-> Q.P,
                      x_share |-> bn_t_from_bin(x_share_bin.v),
                      party_name |-> party_name_buf.v,
                      Qis |-> QisOf(names.v, [i \in 1 .. Len(points) |-> points[i].P])]]

\* deserialize_ecdsamp_key(serialized, key)
deserialize_ecdsamp_key(serialized) ==
    LET nid == read_u32(Reader(serialized))
        Q_bin == read_buf(nid.r)
        x_share_bin == read_buf(Q_bin.r)
        party_name_buf == read_buf(x_share_bin.r)
        qis_count == read_u32(party_name_buf.r)
        curve == find_curve_by_nid(nid.v)
        Q == from_bin(curve, Q_bin.v)
        names == read_bufs(qis_count.r, qis_count.v)
        bins == read_bufs(names.r, Len(names.v))
        points == [i \in 1 .. Len(bins.v) |-> from_bin(curve, bins.v[i])]
    IN IF qis_count.r.err THEN [rv |-> E_CRYPTO, key |-> NoKey]
       ELSE IF curve = 0 THEN [rv |-> E_BADARG, key |-> NoKey]
       ELSE IF Q.rv # SUCCESS THEN [rv |-> E_CRYPTO, key |-> NoKey]
       ELSE IF names.r.err \/ bins.r.err THEN [rv |-> E_CRYPTO, key |-> NoKey]
       ELSE IF \E i \in 1 .. Len(points) : points[i].rv # SUCCESS
       THEN [rv |-> E_CRYPTO, key |-> NoKey]
       ELSE [rv |-> SUCCESS,
             key |-> [curve |-> curve, Q |-> Q.P,
                      x_share |-> bn_t_from_bin(x_share_bin.v),
                      party_name |-> party_name_buf.v,
                      Qis |-> QisOf(names.v, [i \in 1 .. Len(points) |-> points[i].P])]]

\* The read-only accessors: cbmpc_ecdsa2p_key_get_public_key and
\* cbmpc_ecdsamp_key_get_public_key, cbmpc_schnorr2p_key_get_public_key, and
\* the two forms of get_curve.
key_get_public_key(key) == to_compressed_bin(key.Q)

schnorr2p_key_get_public_key(key) == to_oct(key.Q)

key_get_curve(key) == nid_to_curve_enum(key.curve)

schnorr2p_key_get_curve(key) == key.curve

(***************************************************************************)
(* The KEM context handle: static thread_local const void *, one slot per  *)
(* thread, null (0) until the thread sets it.  tls is the slots of all     *)
(* threads, t the calling thread.                                          *)
(***************************************************************************)
\* A set that writes one slot shared by the whole process.
set_kem_process_wide(tls, t, handle) == [u \in DOMAIN tls |-> handle]

cbmpc_set_kem_tls(tls, t, handle) == [tls EXCEPT ![t] = handle]

cbmpc_clear_kem_tls(tls, t) == [tls EXCEPT ![t] = 0]

cbmpc_get_kem_tls(tls, t) == tls[t]

(***************************************************************************)
(* Exceptions at the boundary.  A result's thrown field names the          *)
(* exception that left the function ("none" when the function returned);   *)
(* a call an exception left has no status value.  env.throws is the place  *)
(* where the environment raises one: operator new when memory is           *)
(* exhausted, or the engine.                                               *)
(***************************************************************************)
Returned(rv, log, objs, key_out) ==
    [thrown |-> "none", rv |-> rv, log |-> log, objs |-> objs, key_out |-> key_out]

Escaped(what, log, objs) ==
    [thrown |-> what, log |-> log, objs |-> objs, key_out |-> "unwritten"]

\* cbmpc_ecdsa2p_dkg(j, curve_nid, key_out): no try block.  The key_t is
\* held by a unique_ptr, which unwinding releases.
cbmpc_ecdsa2p_dkg(a, env) ==
    IF a.j = NULL \/ ~a.key_out THEN Returned(E_BADARG, <<>>, <<>>, "unwritten")
    ELSE IF find_curve_by_nid(a.curve_nid) = 0
    THEN Returned(E_BADARG, <<>>, <<>>, "unwritten")
    ELSE IF env.throws = "make_unique"
    THEN Escaped("std::bad_alloc", <<[ev |-> "throw"]>>, <<>>)
    ELSE LET key == <<[ev |-> "new", what |-> "key_t"]>>
             dkg == <<[ev |-> "engine", fn |-> "ecdsa2pc::dkg", rv |-> env.rv]>>
         IN IF env.throws = "engine"
            THEN Escaped("engine", key \o <<[ev |-> "throw"]>>, <<Gone("key_t")>>)
            ELSE IF env.rv # SUCCESS
            THEN Returned(env.rv, key \o dkg \o <<Deleted("key_t")>>, <<Gone("key_t")>>,
                          "unwritten")
            ELSE IF env.throws = "new"
            THEN Escaped("std::bad_alloc", key \o dkg \o <<[ev |-> "throw"]>>,
                         <<Gone("key_t")>>)
            ELSE Returned(SUCCESS,
                          key \o dkg \o <<[ev |-> "new", what |-> "cbmpc_ecdsa2p_key"]>>,
                          <<Obj("key_t"), Obj("cbmpc_ecdsa2p_key")>>, "handle")

\* The status values of agree_random.cpp.
AGREE_SUCCESS_CODE == 0
AGREE_ERROR_CODE == 0 - 1
AGREE_PARAM_ERROR_CODE == 0 - 2

\* The body shared by mpc_agree_random and mpc_multi_agree_random; fn is the
\* engine function.  The handler is catch (const std::exception &): env.throws
\* is "none", "std::exception" (bad_alloc included) or "other" for an
\* exception of a type not derived from std::exception.
agree_random_body(fn, a, env) ==
    IF a.job \in {"null", "no_opaque"} \/ ~a.out
    THEN [thrown |-> "none", rv |-> AGREE_PARAM_ERROR_CODE, log |-> <<>>, out |-> Untouched]
    ELSE IF a.bit_len <= 0
    THEN [thrown |-> "none", rv |-> AGREE_PARAM_ERROR_CODE, log |-> <<>>, out |-> Untouched]
    ELSE IF env.throws = "std::exception"
    THEN [thrown |-> "none", rv |-> AGREE_ERROR_CODE, log |-> <<[ev |-> "throw"]>>,
          out |-> Untouched]
    ELSE IF env.throws = "other"
    THEN [thrown |-> "other", log |-> <<[ev |-> "throw"]>>, out |-> Untouched]
    ELSE LET run == <<[ev |-> "engine", fn |-> fn, rv |-> env.rv]>> IN
         IF env.rv # SUCCESS
         THEN [thrown |-> "none", rv |-> env.rv, log |-> run, out |-> Untouched]
         ELSE [thrown |-> "none", rv |-> AGREE_SUCCESS_CODE, log |-> run,
               out |-> [data |-> 1, size |-> Len(env.sig), bytes |-> env.sig]]

\* mpc_agree_random(job, bit_len, out)
mpc_agree_random(a, env) == agree_random_body("agree_random", a, env)

\* mpc_multi_agree_random(job, bit_len, out)
mpc_multi_agree_random(a, env) == agree_random_body("multi_agree_random", a, env)

\* cbmpc_multi_agree_random(j, bitlen, out)
cbmpc_multi_agree_random(a, eng, oks) ==
    IF a.j = NULL \/ ~a.out THEN [rv |-> E_BADARG, log |-> <<>>, heap |-> <<>>,
                                  out |-> Untouched]
    ELSE LET run == <<[ev |-> "engine", fn |-> "multi_agree_random", rv |-> eng.rv]>> IN
         IF eng.rv # SUCCESS
         THEN [rv |-> eng.rv, log |-> run, heap |-> <<>>, out |-> Untouched]
         ELSE LET c == alloc_and_copy(<<>>, eng.sig, oks[1])
              IN [rv |-> SUCCESS, log |-> run \o c.log, heap |-> c.heap, out |-> c.view]

\* bn_from_bytes(data): the handle of a new number, null (0) for null or
\* empty data and when the constructor raised an exception; catch (...).
bn_from_bytes(data, env) ==
    IF data.data = 0 \/ data.size <= 0
    THEN [thrown |-> "none", handle |-> 0, log |-> <<>>, objs |-> <<>>]
    ELSE IF env.throws
    THEN [thrown |-> "none", handle |-> 0, log |-> <<[ev |-> "throw"]>>, objs |-> <<>>]
    ELSE [thrown |-> "none", handle |-> 1, log |-> <<[ev |-> "new", what |-> "bn_t"]>>,
          objs |-> <<Obj("bn_t")>>]

(***************************************************************************)
(* Inputs.                                                                 *)
(***************************************************************************)
TableArgs == Tables \cup {NullTable}
SelfArgs == 0 .. MaxParties
CountArgs == 0 .. MaxParties

\* Sender lists the engine passes to receive_all on a session of n parties:
\* lists without repetition over the indices -1 .. n.
SenderLists(n) ==
    UNION {{s \in [1 .. k -> -1 .. n] : \A a, b \in 1 .. k : a # b => s[a] # s[b]} :
              k \in 0 .. n}

Envs(n) == [rc : {0, 1}, net : Nets, filled : 0 .. n]

\* Input buffers: null, non-null with a non-positive size, one byte.
InMems == {InMem(0, 0, <<>>), InMem(1, 0, <<>>), InMem(1, -1, <<>>), InMem(1, 1, <<4>>)}
KeyArgs == {"null", "empty", "key"}
\* The sid_in a caller passes: null, non-null of length zero, or one byte.
SidArgs == {InMem(0, 0, <<>>), InMem(1, 0, <<>>), InMem(1, 1, <<4>>)}
RefreshArgs(h) ==
    [j : {h, NULL}, sid_in : SidArgs, key : KeyArgs, sid_out : BOOLEAN, key_out : BOOLEAN]
SignArgs(h) ==
    [j : {h, NULL}, sid_in : SidArgs, key : KeyArgs,
     msg : InMems, sid_out : BOOLEAN, sig_out : BOOLEAN]
\* What the engine does in a protocol run: its status, the session id it
\* generates when given none, and the bytes it produces.
Engines == [rv : {SUCCESS} \cup EngineFailures, gen : {<<6>>}, sig : {<<>>, <<5>>}]
Mallocs == [1 .. 2 -> BOOLEAN]
\* Input buffer arrays: null or empty ones, and one message of one byte.
InViews == {[data |-> 0, sizes |-> 0, count |-> 0], [data |-> 1, sizes |-> 0, count |-> 1],
            [data |-> 0, sizes |-> 1, count |-> 1], [data |-> 1, sizes |-> 1, count |-> 0],
            [data |-> 1, sizes |-> 1, count |-> 1]}
BatchArgs(h) ==
    [j : {h, NULL}, sid_in : SidArgs, key : KeyArgs,
     msgs : InViews, sid_out : BOOLEAN, sig_out : BOOLEAN]
\* The signatures of a batch run: none, all empty (the party that gets no
\* signature), or one per message.
BatchEngines ==
    [rv : {SUCCESS, E_CRYPTO, E_ECDSA_2P_BIT_LEAK}, gen : {<<6>>},
     sigs : {<<>>, <<<<>>, <<>>>>, <<<<5>>, <<7, 8>>>>}]
Mallocs3 == [1 .. 3 -> BOOLEAN]
GetterArgs == [key : KeyArgs, out : BOOLEAN, out_len : BOOLEAN]
GetterEnvs == [throws : BOOLEAN, ok : BOOLEAN]
BnHandles == {[isnull |-> TRUE, bytes |-> <<>>], [isnull |-> FALSE, bytes |-> <<>>],
              [isnull |-> FALSE, bytes |-> <<9>>]}
\* Inputs of the buffer helpers.
MaxCopy == 3
MaxVec == 3
Srcs == UNION {[1 .. n -> {1, 2}] : n \in 0 .. MaxCopy}
Bufs == {<<>>, <<5>>, <<6>>, <<7, 8>>}
Vecs == UNION {[1 .. n -> Bufs] : n \in 0 .. MaxVec}
BitLens == {-1, 0, 8}
PointArrays ==
    {[isnull |-> TRUE, arr |-> <<>>]} \cup
    {[isnull |-> FALSE, arr |-> q] : q \in [1 .. MaxPoints -> {0, 1}]}
VerifyArgs ==
    {a \in [proof : InMems, Q_points : PointArrays, Q_count : -1 .. MaxPoints,
            session_id : InMems] : a.Q_count <= Len(a.Q_points.arr)}
VerifyEngines == [deser : {SUCCESS, E_CRYPTO}, rv : {SUCCESS} \cup EngineFailures]

\* Inputs of the creation functions.
CreateArgs == [serialized : InMems, key : BOOLEAN]
DeserEngines == [rv : {SUCCESS, E_CRYPTO}]
SchnorrEngines == [reader : BOOLEAN, curve : BOOLEAN, rv : {SUCCESS, E_CRYPTO}]
PointArgs == [serialized : InMems, key : BOOLEAN, curve : BOOLEAN]
KeygenArgs == [session : BOOLEAN, key : BOOLEAN]
KeygenEnvs == [job : {"null", "no_opaque", "ok"}, throws : {"none", "new", "dkg"},
               rv : {SUCCESS_CODE} \cup EngineFailures]
\* The handles a caller gives to a destruction function: null or the handle
\* the matching creation function returned.
KeyHandles == {NullKey, KeyHandle}
\* The objects a handle stands for: those the creation left allocated.
Held(objs) == SelectSeq(objs, LAMBDA o : o.live)
SomeKey == InMem(1, 1, <<4>>)

PveArgs == [pve_ct : InMems, Q_point_out : BOOLEAN]
\* The keys given to the serializers.  Party names are one byte long, and
\* one name is two bytes long and begins like the first.
KeyCurves == {415, 714}
KeyPoints(c) == {Point(c, x) : x \in PointXs}
PartyNames == {<<64 + i>> : i \in 1 .. MaxParties - 1} \cup {<<65, 66>>}
Keys2p ==
    UNION {[role : {0, 1}, curve : {c}, Q : KeyPoints(c), x_share : {0, 1, 258},
            c_key : {0, 77}, paillier : {35}] : c \in KeyCurves}
KeysSchnorr ==
    UNION {[role : {0, 1}, curve : {c}, Q : KeyPoints(c), x_share : {0, 1, 258}] :
              c \in KeyCurves}
KeysMp ==
    UNION {UNION {[curve : {c}, Q : {Point(c, 11)}, x_share : {0, 258},
                   party_name : S, Qis : [S -> KeyPoints(c)]] :
                     S \in (SUBSET PartyNames) \ {{}}} : c \in KeyCurves}

\* Inputs of the operations that read a key.
SchnorrSignArgs(h) == [j : {h, NULL}, key : KeyArgs, msg : InMems, sig_out : BOOLEAN]
Refresh2pArgs(h) == [j : {h, NULL}, key : KeyArgs, key_out : BOOLEAN]
CgoSignArgs ==
    [session : BOOLEAN, key : KeyArgs, message_hash : BOOLEAN, signature : BOOLEAN,
     sig_len : BOOLEAN]
CgoSignEnvs ==
    [job : {"null", "no_opaque", "ok"}, throws : {"none", "engine"},
     rv : {SUCCESS_CODE, E_CRYPTO}, sigs : {<<>>, <<<<5, 5>>>>}, ok : BOOLEAN]
CgoRefreshArgs == [session : BOOLEAN, key : KeyArgs, new_key : BOOLEAN]
CgoRefreshEnvs ==
    [job : {"null", "no_opaque", "ok"}, throws : {"none", "new", "engine"},
     rv : {SUCCESS_CODE} \cup EngineFailures]

DkgArgs(h) == [j : {h, NULL}, curve_nid : {714, 0}, key_out : BOOLEAN]
DkgEnvs == [rv : {SUCCESS, E_CRYPTO}, throws : {"none", "make_unique", "engine", "new"}]
CgoAgreeArgs == [job : {"null", "no_opaque", "ok"}, bit_len : BitLens, out : BOOLEAN]
CgoAgreeEnvs == [rv : {SUCCESS, E_CRYPTO}, throws : {"none", "std::exception", "other"},
                 sig : {<<5>>}]

Live(h) == jobs[h].kind # "none"

\* A session that uses the table and the mapping of the session first made.
session_of_first(h) ==
    IF jobs["j1"].kind # "none"
    THEN [jobs[h] EXCEPT !.vtable = jobs["j1"].vtable,
                         !.index_to_role = jobs["j1"].index_to_role]
    ELSE jobs[h]

\* The session behind handle h as its adapter sees it during a call.
Session(h) == [jobs[h] EXCEPT !.vtable = vtable(jobs[h], caller_table[h])]

\* No call is in progress or waiting to be taken back by the caller: the
\* boundary is used by one caller thread, one call at a time.
Idle == call.op = "none"

(***************************************************************************)
(* Actions.                                                                *)
(***************************************************************************)
Init ==
    /\ jobs = [h \in AllHandles |-> NoJob]
    /\ caller_table = [h \in AllHandles |-> NullTable]
    /\ made = [h \in AllHandles |-> NoMade]
    /\ g_cbmpc_kem_tls = [t \in Threads |-> 0]
    /\ call = [op |-> "none"]
    /\ ret = [rv |-> SUCCESS]
    /\ trace = <<>>

\* A caller constructs a two-party session at h from a table of T, a local
\* identity of S and a names argument of N.
Job2pNew(h, T, S, N) ==
    /\ ~Live(h)
    /\ \E t \in T, self \in S, names \in N :
         LET r == cbmpc_job2p_new(t, self, names) IN
         /\ jobs' = [jobs EXCEPT ![h] = r.obj]
         /\ caller_table' = [caller_table EXCEPT ![h] = IF r.handle THEN t ELSE @]
         /\ made' = [made EXCEPT ![h] = IF r.handle
                                         THEN Made("2p", t, self, SubSeq(names.arr, 1, 2))
                                         ELSE @]
         /\ UNCHANGED g_cbmpc_kem_tls
         /\ call' = [op |-> "cbmpc_job2p_new", h |-> h, t |-> t, self |-> self,
                     n |-> 2, names |-> names]
         /\ ret' = [handle |-> IF r.handle THEN h ELSE NULL]
         /\ trace' = r.log

Step_job2p_new(h) ==
    /\ Idle
    /\ Job2pNew(h, TableArgs, SelfArgs, NamesArg(2))

\* The same for a multi-party session of a party count of C; N[n] is the
\* set of names arguments for n parties.
JobmpNew(h, T, S, C, N) ==
    /\ ~Live(h)
    /\ \E t \in T, self \in S, n \in C :
       \E names \in N[n] :
         LET r == cbmpc_jobmp_new(t, self, n, names) IN
         /\ jobs' = [jobs EXCEPT ![h] = r.obj]
         /\ caller_table' = [caller_table EXCEPT ![h] = IF r.handle THEN t ELSE @]
         /\ made' = [made EXCEPT ![h] = IF r.handle
                                         THEN Made("mp", t, self, SubSeq(names.arr, 1, n))
                                         ELSE @]
         /\ UNCHANGED g_cbmpc_kem_tls
         /\ call' = [op |-> "cbmpc_jobmp_new", h |-> h, t |-> t, self |-> self,
                     n |-> n, names |-> names]
         /\ ret' = [handle |-> IF r.handle THEN h ELSE NULL]
         /\ trace' = r.log

Step_jobmp_new(h) ==
    /\ Idle
    /\ JobmpNew(h, TableArgs, SelfArgs, CountArgs, [n \in CountArgs |-> NamesArg(n)])

\* A free of the handle of a live session, by the function of its kind.
Step_job_free(h) ==
    /\ Idle
    /\ Live(h)
    /\ LET r == cbmpc_job_free(FALSE, jobs[h]) IN
       /\ jobs' = [jobs EXCEPT ![h] = NoJob]
       /\ caller_table' = [caller_table EXCEPT ![h] = NullTable]
       /\ made' = [made EXCEPT ![h] = NoMade]
       /\ UNCHANGED g_cbmpc_kem_tls
       /\ call' = [op |-> "cbmpc_job_free", h |-> h, kind |-> jobs[h].kind,
                   before |-> jobs[h]]
       /\ ret' = [after |-> r.obj]
       /\ trace' = r.log

\* A free of the null handle; before is the session table it must not touch.
Step_job_free_null ==
    /\ Idle
    /\ \E h \in Handles :
         LET r == cbmpc_job_free(TRUE, jobs[h]) IN
         /\ jobs' = [jobs EXCEPT ![h] = r.obj]
         /\ UNCHANGED <<caller_table, made, g_cbmpc_kem_tls>>
         /\ call' = [op |-> "cbmpc_job_free", h |-> NULL, on |-> h,
                     kind |-> jobs[h].kind, before |-> jobs[h]]
         /\ ret' = [after |-> r.obj]
         /\ trace' = r.log

\* The engine, inside a protocol run on session h, sends msg to receiver.
Send(h, R, M) ==
    /\ Live(h)
    /\ \E receiver \in R, msg \in M, env \in Envs(0) :
         LET r == go_transport_base_send(Adapter(Session(h)), receiver, msg, env) IN
         /\ call' = [op |-> "send", h |-> h, idx |-> <<receiver>>, msg |-> msg]
         /\ ret' = [rv |-> r.rv]
         /\ trace' = r.log
         /\ UNCHANGED others

Step_send(h) ==
    /\ Idle
    /\ Send(h, PartyIdx, Msgs)

\* The engine, inside a protocol run on session h, receives from a sender
\* of R.
Receive(h, R) ==
    /\ Live(h)
    /\ \E sender \in R, env \in Envs(1) :
         LET r == go_transport_base_receive(Adapter(Session(h)), sender, <<>>, env) IN
         /\ call' = [op |-> "receive", h |-> h, idx |-> <<sender>>]
         /\ ret' = [rv |-> r.rv, message |-> <<r.msg>>, mem |-> r.mem]
         /\ trace' = r.log
         /\ UNCHANGED others

Step_receive(h) ==
    /\ Idle
    /\ Receive(h, PartyIdx)

\* receive_all is virtual: the adapter of the session's kind answers.
receive_all(j, senders, message0, env) ==
    IF j.kind = "2p" THEN go_transport_2p_receive_all(Adapter(j), senders, message0, env)
    ELSE go_transport_mp_receive_all(Adapter(j), senders, message0, env)

\* The engine receives from each sender of a list of L.
ReceiveAll(h, L) ==
    /\ Live(h)
    /\ \E senders \in L :
       \E env \in Envs(Len(senders)) :
         LET r == receive_all(Session(h), senders, <<>>, env) IN
         /\ call' = [op |-> "receive_all", h |-> h, idx |-> senders]
         /\ ret' = [rv |-> r.rv, message |-> r.message, mem |-> r.mem]
         /\ trace' = r.log
         /\ UNCHANGED others

Step_receive_all(h) ==
    /\ Idle
    /\ ReceiveAll(h, SenderLists(Len(jobs[h].index_to_role)))

\* A caller runs a two-party signature on session h, or on the null handle.
Step_ecdsa2p_sign(h) ==
    /\ Idle
    /\ jobs[h].kind = "2p"
    /\ \E a \in SignArgs(h), eng \in Engines, oks \in Mallocs :
         LET r == cbmpc_ecdsa2p_sign(a, eng, oks) IN
         /\ call' = [op |-> "cbmpc_ecdsa2p_sign", h |-> h, a |-> a]
         /\ ret' = [rv |-> r.rv, heap |-> r.heap, sid_out |-> r.sid_out,
                    sig_out |-> r.sig_out]
         /\ trace' = r.log
         /\ UNCHANGED others

Step_ecdsa2p_sign_with_global_abort(h) ==
    /\ Idle
    /\ jobs[h].kind = "2p"
    /\ \E a \in SignArgs(h), eng \in Engines, oks \in Mallocs :
         LET r == cbmpc_ecdsa2p_sign_with_global_abort(a, eng, oks) IN
         /\ call' = [op |-> "cbmpc_ecdsa2p_sign_with_global_abort", h |-> h, a |-> a]
         /\ ret' = [rv |-> r.rv, heap |-> r.heap, sid_out |-> r.sid_out,
                    sig_out |-> r.sig_out]
         /\ trace' = r.log
         /\ UNCHANGED others

Step_ecdsa2p_sign_batch(h) ==
    /\ Idle
    /\ jobs[h].kind = "2p"
    /\ \E a \in BatchArgs(h), eng \in BatchEngines, oks \in Mallocs3 :
         LET r == cbmpc_ecdsa2p_sign_batch(a, eng, oks) IN
         /\ call' = [op |-> "cbmpc_ecdsa2p_sign_batch", h |-> h, a |-> a]
         /\ ret' = [rv |-> r.rv, heap |-> r.heap, sid_out |-> r.sid_out,
                    sig_out |-> r.sig_out]
         /\ trace' = r.log
         /\ UNCHANGED others

Step_ecdsa2p_sign_with_global_abort_batch(h) ==
    /\ Idle
    /\ jobs[h].kind = "2p"
    /\ \E a \in BatchArgs(h), eng \in BatchEngines, oks \in Mallocs3 :
         LET r == cbmpc_ecdsa2p_sign_with_global_abort_batch(a, eng, oks) IN
         /\ call' = [op |-> "cbmpc_ecdsa2p_sign_with_global_abort_batch", h |-> h,
                     a |-> a]
         /\ ret' = [rv |-> r.rv, heap |-> r.heap, sid_out |-> r.sid_out,
                    sig_out |-> r.sig_out]
         /\ trace' = r.log
         /\ UNCHANGED others

\* A caller refreshes a multi-party key on session h, or on the null handle.
Step_ecdsamp_refresh(h) ==
    /\ Idle
    /\ jobs[h].kind = "mp"
    /\ \E a \in RefreshArgs(h), eng \in Engines, oks \in Mallocs :
         LET r == cbmpc_ecdsamp_refresh(a, eng, oks) IN
         /\ call' = [op |-> "cbmpc_ecdsamp_refresh", h |-> h, a |-> a]
         /\ ret' = [rv |-> r.rv, heap |-> r.heap, objs |-> r.objs,
                    sid_out |-> r.sid_out, key_out |-> r.key_out]
         /\ trace' = r.log
         /\ UNCHANGED others

Step_agree_random_2p(h) ==
    /\ Idle
    /\ jobs[h].kind = "2p"
    /\ \E a \in [j : {h, NULL}, bitlen : BitLens, out : BOOLEAN],
          eng \in Engines, oks \in Mallocs :
         LET r == cbmpc_agree_random_2p(a, eng, oks) IN
         /\ call' = [op |-> "cbmpc_agree_random_2p", h |-> h, a |-> a]
         /\ ret' = [rv |-> r.rv, heap |-> r.heap, out |-> r.out]
         /\ trace' = r.log
         /\ UNCHANGED others

\* A caller reads the public key or the private share behind a key handle.
Step_ecdsa_2p_key_get_public_key ==
    /\ Idle
    /\ \E a \in GetterArgs, env \in GetterEnvs :
         LET r == ecdsa_2p_key_get_public_key(a, env) IN
         /\ call' = [op |-> "ecdsa_2p_key_get_public_key", a |-> a]
         /\ ret' = [rv |-> r.rv, heap |-> r.heap, out |-> r.out]
         /\ trace' = r.log
         /\ UNCHANGED others

Step_ecdsa_2p_key_get_private_share ==
    /\ Idle
    /\ \E a \in GetterArgs, env \in GetterEnvs :
         LET r == ecdsa_2p_key_get_private_share(a, env) IN
         /\ call' = [op |-> "ecdsa_2p_key_get_private_share", a |-> a]
         /\ ret' = [rv |-> r.rv, heap |-> r.heap, out |-> r.out]
         /\ trace' = r.log
         /\ UNCHANGED others

\* A caller serializes a big number.
Step_bn_to_bytes ==
    /\ Idle
    /\ \E handle \in BnHandles, env \in GetterEnvs :
         LET r == bn_to_bytes(handle, env) IN
         /\ call' = [op |-> "bn_to_bytes", handle |-> handle]
         /\ ret' = [heap |-> r.heap, out |-> r.view]
         /\ trace' = r.log
         /\ UNCHANGED others

\* A caller gives back a buffer it got from one of the two getters (block 1
\* of the heap), or the null pointer.
Step_ecdsa_2p_free_buffer ==
    /\ Idle
    /\ \E got \in {"ecdsa_2p_key_get_public_key", "ecdsa_2p_key_get_private_share"},
          buffer \in {0, 1} :
         LET r == IF got = "ecdsa_2p_key_get_public_key"
                  THEN ecdsa_2p_key_get_public_key([key |-> "key", out |-> TRUE,
                           out_len |-> TRUE], [throws |-> FALSE, ok |-> TRUE])
                  ELSE ecdsa_2p_key_get_private_share([key |-> "key", out |-> TRUE,
                           out_len |-> TRUE], [throws |-> FALSE, ok |-> TRUE])
         IN /\ call' = [op |-> "ecdsa_2p_free_buffer", got |-> got, buffer |-> buffer]
            /\ ret' = [heap |-> ecdsa_2p_free_buffer(r.heap, buffer)]
            /\ trace' = <<>>
            /\ UNCHANGED others

\* A caller verifies a batch proof; no session is involved.
Step_uc_batch_dl_verify ==
    /\ Idle
    /\ \E a \in VerifyArgs, eng \in VerifyEngines :
         LET r == cbmpc_uc_batch_dl_verify(a, eng) IN
         /\ call' = [op |-> "cbmpc_uc_batch_dl_verify", a |-> a]
         /\ ret' = [rv |-> r.rv]
         /\ trace' = r.log
         /\ UNCHANGED others

\* A caller creates a key or a point from bytes.
Create(op, r, a) ==
    /\ call' = [op |-> op, a |-> a]
    /\ ret' = [rv |-> r.rv, objs |-> r.objs, key_out |-> r.key_out]
    /\ trace' = r.log
    /\ UNCHANGED others

Step_ecdsa2p_key_deserialize ==
    /\ Idle
    /\ \E a \in CreateArgs, eng \in DeserEngines :
         Create("cbmpc_ecdsa2p_key_deserialize", cbmpc_ecdsa2p_key_deserialize(a, eng), a)

Step_schnorr2p_key_deserialize ==
    /\ Idle
    /\ \E a \in CreateArgs, eng \in SchnorrEngines :
         Create("cbmpc_schnorr2p_key_deserialize", cbmpc_schnorr2p_key_deserialize(a, eng), a)

Step_ecc_point_from_bytes ==
    /\ Idle
    /\ \E a \in PointArgs, eng \in DeserEngines :
         Create("cbmpc_ecc_point_from_bytes", cbmpc_ecc_point_from_bytes(a, eng), a)

Step_ecdsa_2p_keygen ==
    /\ Idle
    /\ \E a \in KeygenArgs, env \in KeygenEnvs :
         Create("ecdsa_2p_keygen", ecdsa_2p_keygen(a, env), a)

\* A caller gives a handle to its destruction function: the handle the
\* matching creation function returned, or null.
Destroy(op, key, had, r) ==
    /\ call' = [op |-> op, key |-> key, had |-> had]
    /\ ret' = [objs |-> r.objs]
    /\ trace' = r.log
    /\ UNCHANGED others

Step_ecdsa2p_key_free ==
    /\ Idle
    /\ \E key \in KeyHandles :
         LET had == Held(cbmpc_ecdsa2p_key_deserialize(
                        [serialized |-> SomeKey, key |-> TRUE], [rv |-> SUCCESS]).objs)
         IN Destroy("cbmpc_ecdsa2p_key_free", key, had, cbmpc_ecdsa2p_key_free(key, had))

Step_schnorr2p_key_free ==
    /\ Idle
    /\ \E key \in KeyHandles :
         LET had == Held(cbmpc_schnorr2p_key_deserialize(
                        [serialized |-> SomeKey, key |-> TRUE],
                        [reader |-> TRUE, curve |-> TRUE, rv |-> SUCCESS]).objs)
         IN Destroy("cbmpc_schnorr2p_key_free", key, had, cbmpc_schnorr2p_key_free(key, had))

Step_ecc_point_free ==
    /\ Idle
    /\ \E key \in KeyHandles :
         LET had == Held(cbmpc_ecc_point_from_bytes(
                        [serialized |-> SomeKey, key |-> TRUE, curve |-> TRUE],
                        [rv |-> SUCCESS]).objs)
         IN Destroy("cbmpc_ecc_point_free", key, had, cbmpc_ecc_point_free(key, had))

Step_ecdsa_2p_key_free ==
    /\ Idle
    /\ \E key \in KeyHandles :
         LET had == Held(ecdsa_2p_keygen([session |-> TRUE, key |-> TRUE],
                        [job |-> "ok", throws |-> "none", rv |-> SUCCESS_CODE]).objs)
         IN Destroy("ecdsa_2p_key_free", key, had, ecdsa_2p_key_free(key, had))

\* A caller reads the public point of a ciphertext and, as the header tells
\* it to, does not free the point.
Step_pve_get_Q_point ==
    /\ Idle
    /\ \E a \in PveArgs, eng \in DeserEngines :
         Create("cbmpc_pve_get_Q_point", cbmpc_pve_get_Q_point(a, eng), a)

Step_schnorr2p_sign(h) ==
    /\ Idle
    /\ jobs[h].kind = "2p"
    /\ \E a \in SchnorrSignArgs(h), eng \in Engines, oks \in Mallocs :
         LET r == cbmpc_schnorr2p_sign(a, eng, oks) IN
         /\ call' = [op |-> "cbmpc_schnorr2p_sign", h |-> h, a |-> a]
         /\ ret' = [rv |-> r.rv, heap |-> r.heap, out |-> r.out]
         /\ trace' = r.log
         /\ UNCHANGED others

Step_ecdsa2p_refresh(h) ==
    /\ Idle
    /\ jobs[h].kind = "2p"
    /\ \E a \in Refresh2pArgs(h), eng \in Engines :
         LET r == cbmpc_ecdsa2p_refresh(a, eng) IN
         /\ call' = [op |-> "cbmpc_ecdsa2p_refresh", h |-> h, a |-> a]
         /\ ret' = [rv |-> r.rv, objs |-> r.objs, key_out |-> r.key_out]
         /\ trace' = r.log
         /\ UNCHANGED others

\* The session_t layer makes its own temporary job for every call.
Step_ecdsa_2p_sign ==
    /\ Idle
    /\ \E a \in CgoSignArgs, env \in CgoSignEnvs :
         LET r == ecdsa_2p_sign(a, env) IN
         /\ call' = [op |-> "ecdsa_2p_sign", a |-> a]
         /\ ret' = [rv |-> r.rv, objs |-> r.objs, heap |-> r.heap, out |-> r.out]
         /\ trace' = r.log
         /\ UNCHANGED others

Step_ecdsa_2p_refresh ==
    /\ Idle
    /\ \E a \in CgoRefreshArgs, env \in CgoRefreshEnvs :
         Create("ecdsa_2p_refresh", ecdsa_2p_refresh(a, env), a)

\* What the caller sees of a result: everything but the events.
Seen(r) == [f \in DOMAIN r \ {"log"} |-> r[f]]

\* A caller generates a two-party key on session h, or on the null handle.
Step_ecdsa2p_dkg(h) ==
    /\ Idle
    /\ jobs[h].kind = "2p"
    /\ \E a \in DkgArgs(h), env \in DkgEnvs :
         LET r == cbmpc_ecdsa2p_dkg(a, env) IN
         /\ call' = [op |-> "cbmpc_ecdsa2p_dkg", h |-> h, a |-> a]
         /\ ret' = Seen(r)
         /\ trace' = r.log
         /\ UNCHANGED others

Step_multi_agree_random(h) ==
    /\ Idle
    /\ jobs[h].kind = "mp"
    /\ \E a \in [j : {h, NULL}, bitlen : BitLens, out : BOOLEAN],
          eng \in Engines, oks \in Mallocs :
         LET r == cbmpc_multi_agree_random(a, eng, oks) IN
         /\ call' = [op |-> "cbmpc_multi_agree_random", h |-> h, a |-> a]
         /\ ret' = [rv |-> r.rv, heap |-> r.heap, out |-> r.out]
         /\ trace' = r.log
         /\ UNCHANGED others

\* A caller of the session_t-based layer agrees on random bits.
Step_mpc_agree_random ==
    /\ Idle
    /\ \E a \in CgoAgreeArgs, env \in CgoAgreeEnvs :
         LET r == mpc_agree_random(a, env) IN
         /\ call' = [op |-> "mpc_agree_random", a |-> a]
         /\ ret' = Seen(r)
         /\ trace' = r.log
         /\ UNCHANGED others

Step_mpc_multi_agree_random ==
    /\ Idle
    /\ \E a \in CgoAgreeArgs, env \in CgoAgreeEnvs :
         LET r == mpc_multi_agree_random(a, env) IN
         /\ call' = [op |-> "mpc_multi_agree_random", a |-> a]
         /\ ret' = Seen(r)
         /\ trace' = r.log
         /\ UNCHANGED others

\* A caller makes a number from bytes.
Step_bn_from_bytes ==
    /\ Idle
    /\ \E data \in InMems, throws \in BOOLEAN :
         LET r == bn_from_bytes(data, [throws |-> throws]) IN
         /\ call' = [op |-> "bn_from_bytes", a |-> [data |-> data]]
         /\ ret' = Seen(r)
         /\ trace' = r.log
         /\ UNCHANGED others

\* The call returns: the caller takes the result and may call again.
Step_return ==
    /\ ~Idle
    /\ call' = [op |-> "none"]
    /\ ret' = [rv |-> SUCCESS]
    /\ trace' = <<>>
    /\ UNCHANGED others

Next ==
    \/ \E h \in Handles : Step_job2p_new(h)
    \/ \E h \in Handles : Step_jobmp_new(h)
    \/ \E h \in Handles : Step_job_free(h)
    \/ Step_job_free_null
    \/ \E h \in Handles : Step_send(h)
    \/ \E h \in Handles : Step_receive(h)
    \/ \E h \in Handles : Step_receive_all(h)
    \/ \E h \in Handles : Step_ecdsa2p_sign(h)
    \/ \E h \in Handles : Step_ecdsa2p_sign_with_global_abort(h)
    \/ \E h \in Handles : Step_ecdsa2p_sign_batch(h)
    \/ \E h \in Handles : Step_ecdsa2p_sign_with_global_abort_batch(h)
    \/ \E h \in Handles : Step_ecdsamp_refresh(h)
    \/ \E h \in Handles : Step_agree_random_2p(h)
    \/ Step_uc_batch_dl_verify
    \/ Step_ecdsa_2p_key_get_public_key
    \/ Step_ecdsa_2p_key_get_private_share
    \/ Step_bn_to_bytes
    \/ Step_ecdsa_2p_free_buffer
    \/ Step_ecdsa2p_key_deserialize
    \/ Step_schnorr2p_key_deserialize
    \/ Step_ecc_point_from_bytes
    \/ Step_ecdsa_2p_keygen
    \/ Step_ecdsa2p_key_free
    \/ Step_schnorr2p_key_free
    \/ Step_ecc_point_free
    \/ Step_ecdsa_2p_key_free
    \/ Step_pve_get_Q_point
    \/ \E h \in Handles : Step_schnorr2p_sign(h)
    \/ \E h \in Handles : Step_ecdsa2p_refresh(h)
    \/ Step_ecdsa_2p_sign
    \/ Step_ecdsa_2p_refresh
    \/ \E h \in Handles : Step_ecdsa2p_dkg(h)
    \/ \E h \in Handles : Step_multi_agree_random(h)
    \/ Step_mpc_agree_random
    \/ Step_mpc_multi_agree_random
    \/ Step_bn_from_bytes
    \/ Step_return

Spec == Init /\ [][Next]_vars

(***************************************************************************)
(* The buffer helpers on their own: each step applies one helper to an     *)
(* input drawn from Srcs or Vecs, with every outcome of malloc.  The       *)
(* source bytes of alloc_and_copy live in block 1 of the heap.             *)
(***************************************************************************)
Step_alloc_and_copy ==
    /\ Idle
    /\ \E src \in Srcs, ok \in BOOLEAN :
         LET r == alloc_and_copy(<<Block(src)>>, src, ok) IN
         /\ call' = [op |-> "alloc_and_copy", src |-> src, ok |-> ok]
         /\ ret' = [heap |-> r.heap, view |-> r.view]
         /\ trace' = r.log
         /\ UNCHANGED others

Step_alloc_and_copy_vector ==
    /\ Idle
    /\ \E vec \in Vecs, oks \in Mallocs :
         LET r == alloc_and_copy_vector(<<>>, vec, oks) IN
         /\ call' = [op |-> "alloc_and_copy_vector", layer |-> "backend",
                     vec |-> vec, oks |-> oks]
         /\ ret' = [heap |-> r.heap, view |-> r.view]
         /\ trace' = r.log
         /\ UNCHANGED others

Step_bindings_alloc_and_copy_vector ==
    /\ Idle
    /\ \E vec \in Vecs, oks \in Mallocs :
         LET r == bindings_alloc_and_copy_vector(<<>>, vec, oks) IN
         /\ call' = [op |-> "alloc_and_copy_vector", layer |-> "bindings",
                     vec |-> vec, oks |-> oks]
         /\ ret' = [heap |-> r.heap, view |-> r.view]
         /\ trace' = r.log
         /\ UNCHANGED others

\* A key is serialized and the bytes are deserialized again, as
\* cbmpc_ecdsa2p_key_serialize and cbmpc_ecdsa2p_key_deserialize do (their
\* ecdsamp and schnorr2p forms alike): an empty serialization is an error.
RoundTrip(op, x, ser, r) ==
    /\ call' = [op |-> op, x |-> x]
    /\ ret' = IF ser = <<>> THEN [rv |-> E_CRYPTO, ser |-> ser, y |-> NoKey]
              ELSE [rv |-> r.rv, ser |-> ser, y |-> r.key]
    /\ trace' = <<>>
    /\ UNCHANGED others

Step_ecdsa2p_key_roundtrip ==
    /\ Idle
    /\ \E x \in Keys2p :
         RoundTrip("ecdsa2p_key_roundtrip", x, serialize_ecdsa2p_key(x),
                   deserialize_ecdsa2p_key(serialize_ecdsa2p_key(x)))

Step_ecdsamp_key_roundtrip ==
    /\ Idle
    /\ \E x \in KeysMp :
         RoundTrip("ecdsamp_key_roundtrip", x, serialize_ecdsamp_key(x),
                   deserialize_ecdsamp_key(serialize_ecdsamp_key(x)))

Step_schnorr2p_key_roundtrip ==
    /\ Idle
    /\ \E x \in KeysSchnorr :
         RoundTrip("schnorr2p_key_roundtrip", x, serialize_schnorr2p_key(x),
                   deserialize_schnorr2p_key(serialize_schnorr2p_key(x)))

\* A list is packed into a buffer array and the array is unpacked again.
Step_pack_unpack ==
    /\ Idle
    /\ \E vec \in Vecs, oks \in Mallocs :
         LET r == alloc_and_copy_vector(<<>>, vec, oks)
             data == BytesAt(r.heap, r.view.data)
             sizes == BytesAt(r.heap, r.view.sizes)
         IN /\ call' = [op |-> "pack_unpack", vec |-> vec, oks |-> oks]
            /\ ret' = [view |-> r.view, heap |-> r.heap,
                       msg_vec |-> unpack_msgs(data, sizes, r.view.count),
                       w |-> unpack_scalars(data, sizes, r.view.count)]
            /\ trace' = r.log
            /\ UNCHANGED others

HelperNext ==
    \/ Step_alloc_and_copy
    \/ Step_ecdsa2p_key_roundtrip
    \/ Step_ecdsamp_key_roundtrip
    \/ Step_schnorr2p_key_roundtrip
    \/ Step_alloc_and_copy_vector
    \/ Step_bindings_alloc_and_copy_vector
    \/ Step_pack_unpack
    \/ Step_return

HelperSpec == Init /\ [][HelperNext]_vars

(***************************************************************************)
(* Two sessions side by side.  Between calls the caller may overwrite or   *)
(* release the table struct it passed to a constructor.                    *)
(***************************************************************************)
Step_caller_changes_table(h) ==
    /\ Idle
    /\ Live(h)
    /\ \E t \in {Released} \cup {Table(c, TRUE, TRUE, TRUE) : c \in Ctxs} :
         /\ t # caller_table[h]
         /\ caller_table' = [caller_table EXCEPT ![h] = t]
         /\ call' = [op |-> "caller_changes_table", h |-> h, t |-> t]
         /\ ret' = [rv |-> SUCCESS]
         /\ trace' = <<>>
         /\ UNCHANGED <<jobs, made, g_cbmpc_kem_tls>>

\* The inputs of the two sessions: complete tables, valid identities and
\* names, party indices inside and outside a two-party session.
PairTables == {Table(c, TRUE, TRUE, TRUE) : c \in Ctxs}
PairSelf == {0, 1}
PairCounts == {2, MaxParties}
PairNames(n) == {[isnull |-> FALSE, arr |-> [i \in 1 .. n |-> PName(i)]]}
PairIdx == {0, 1, MaxParties - 1}
PairMsgs == {<<1>>}
PairSenders == {<<0>>, <<1, 0>>, <<MaxParties - 1, 0>>}

\* The constructors and the transport of one of the two sessions.
Step_pair_job2p_new(h) ==
    /\ Idle
    /\ Job2pNew(h, PairTables, PairSelf, PairNames(2))

Step_pair_jobmp_new(h) ==
    /\ Idle
    /\ JobmpNew(h, PairTables, PairSelf, PairCounts, [n \in PairCounts |-> PairNames(n)])

Step_pair_send(h) ==
    /\ Idle
    /\ Send(h, PairIdx, PairMsgs)

Step_pair_receive(h) ==
    /\ Idle
    /\ Receive(h, PairIdx)

Step_pair_receive_all(h) ==
    /\ Idle
    /\ ReceiveAll(h, PairSenders)

SessionNext ==
    \/ \E h \in AllHandles : Step_pair_job2p_new(h)
    \/ \E h \in AllHandles : Step_pair_jobmp_new(h)
    \/ \E h \in AllHandles : Step_job_free(h)
    \/ \E h \in AllHandles : Step_caller_changes_table(h)
    \/ \E h \in AllHandles : Step_pair_send(h)
    \/ \E h \in AllHandles : Step_pair_receive(h)
    \/ \E h \in AllHandles : Step_pair_receive_all(h)
    \/ Step_return

SessionSpec == Init /\ [][SessionNext]_vars

(***************************************************************************)
(* The KEM context handle on its own: threads set, clear and read their    *)
(* slot in any order.  Each function is one access of the calling thread's *)
(* slot, so a call is one step; trace keeps the calls made so far.         *)
(***************************************************************************)
KemCall(op, t, handle, tls) ==
    /\ Len(trace) < MaxOps
    /\ g_cbmpc_kem_tls' = tls
    /\ call' = [op |-> op, t |-> t, handle |-> handle]
    /\ ret' = [value |-> IF op = "cbmpc_get_kem_tls" THEN cbmpc_get_kem_tls(tls, t) ELSE 0]
    /\ trace' = Append(trace, [op |-> op, t |-> t, handle |-> handle,
                               value |-> cbmpc_get_kem_tls(tls, t)])
    /\ UNCHANGED <<jobs, caller_table, made>>

Step_set_kem_tls ==
    \E t \in Threads, handle \in KemHandles \cup {0} :
        KemCall("cbmpc_set_kem_tls", t, handle, cbmpc_set_kem_tls(g_cbmpc_kem_tls, t, handle))

Step_clear_kem_tls ==
    \E t \in Threads :
        KemCall("cbmpc_clear_kem_tls", t, 0, cbmpc_clear_kem_tls(g_cbmpc_kem_tls, t))

Step_get_kem_tls ==
    \E t \in Threads : KemCall("cbmpc_get_kem_tls", t, 0, g_cbmpc_kem_tls)

KemNext ==
    \/ Step_set_kem_tls
    \/ Step_clear_kem_tls
    \/ Step_get_kem_tls

KemSpec == Init /\ [][KemNext]_vars

(***************************************************************************)
(* Properties of the transport adapter and of the sessions.                *)
(***************************************************************************)
\* The session the last call was made on.
J == jobs[call.h]

InRange(j, idx) == idx >= 0 /\ idx < Len(j.index_to_role)

\* The callback events of the last call.
Callbacks == SelectSeq(trace, LAMBDA e : e.ev \in {"send", "receive", "receive_all"})

\* The bytes a receive callback produced for the i-th identity it was asked
\* for: what waits on the network for that identity, if the callback got as
\* far as filling that view.
Produced(cb, i) == IF i <= cb.env.filled THEN cb.env.net[cb.roles[i]] ELSE <<>>

\* C1: on any session whose table has a send callback, send(receiver, msg)
\* with receiver in range invokes that callback exactly once, with the
\* session's ctx, the identity the session's mapping gives for receiver (so
\* index 1 on party 0's two-party session reaches identity 1, not 0) and the
\* bytes of msg.
C1_SendRouting ==
    (call.op = "send" /\ J.vtable.send /\ InRange(J, call.idx[1])) =>
        /\ Len(Callbacks) = 1
        /\ trace[1].ev = "send"
        /\ trace[1].ctx = J.vtable.ctx
        /\ trace[1].role = J.index_to_role[call.idx[1] + 1]
        /\ trace[1].bytes = call.msg
        /\ (J.kind = "2p" /\ J.self = 0 /\ call.idx[1] = 1) => trace[1].role = 1

C1_Witness ==
    /\ call.op = "send" /\ J.kind = "2p" /\ J.self = 0 /\ call.idx = <<1>>
    /\ Len(trace) = 1 /\ trace[1].role = 1 /\ call.msg # <<>>

\* The callback a transport call needs is null in the session's table.
NeedNull ==
    \/ call.op = "send" /\ ~J.vtable.send
    \/ call.op = "receive" /\ ~J.vtable.receive
    \/ call.op = "receive_all" /\ J.kind = "2p" /\ ~J.vtable.receive
    \/ call.op = "receive_all" /\ J.kind = "mp" /\ ~J.vtable.receive_all

\* An argument-shape violation of a transport call: an out-of-range index, a
\* sender count other than one on the two-party adapter, a null callback.
ShapeViolation ==
    \/ \E i \in 1 .. Len(call.idx) : ~InRange(J, call.idx[i])
    \/ call.op = "receive_all" /\ J.kind = "2p" /\ Len(call.idx) # 1
    \/ NeedNull

\* C2: every transport call with an argument-shape violation returns
\* bad-argument and invokes no callback, and transport-failure is returned
\* exactly when a callback was invoked and reported a nonzero status.
C2_FailureClasses ==
    call.op \in {"send", "receive", "receive_all"} =>
        /\ ShapeViolation => (ret.rv = E_BADARG /\ Callbacks = <<>>)
        /\ ret.rv = E_NET_GENERAL <=>
               (Len(Callbacks) = 1 /\
                   (IF trace[1].ev = "send" THEN trace[1].rc ELSE trace[1].env.rc) # 0)

\* C3: on the two-party adapter receive_all with zero or several senders
\* returns bad-argument and invokes no callback; with one sender it returns
\* what receive returns for that sender, as a list of one message.
C3_TwoPartyReceiveAll ==
    (call.op = "receive_all" /\ J.kind = "2p") =>
        IF Len(call.idx) # 1
        THEN ret.rv = E_BADARG /\ trace = <<>>
        ELSE /\ Len(ret.message) = 1
             /\ \E env \in Envs(1) :
                  go_transport_base_receive(Adapter(J), call.idx[1], <<>>, env).log = trace
             /\ \A env \in Envs(1) :
                  LET r == go_transport_base_receive(Adapter(J), call.idx[1], <<>>, env) IN
                  r.log = trace => (ret.rv = r.rv /\ ret.message = <<r.msg>>)

C3_Witness ==
    /\ call.op = "receive_all" /\ J.kind = "2p" /\ Len(call.idx) = 1
    /\ ret.rv = SUCCESS /\ ret.message[1] # <<>>

C3_WitnessMany ==
    call.op = "receive_all" /\ J.kind = "2p" /\ Len(call.idx) = 2 /\ ret.rv = E_BADARG

\* C4: on the multi-party adapter receive_all with n >= 1 in-range senders
\* (and a receive_all callback in the table) makes exactly one receive_all
\* callback, which carries the n resolved identities in the order of the
\* senders, and on success message[i] is the bytes the callback produced for
\* the i-th identity, whatever the order of the senders.
C4_BatchedReceiveOrder ==
    (/\ call.op = "receive_all" /\ J.kind = "mp" /\ J.vtable.receive_all
     /\ Len(call.idx) >= 1
     /\ \A i \in 1 .. Len(call.idx) : InRange(J, call.idx[i])) =>
        /\ Len(Callbacks) = 1
        /\ trace[1].ev = "receive_all"
        /\ trace[1].ctx = J.vtable.ctx
        /\ trace[1].roles = [i \in 1 .. Len(call.idx) |-> J.index_to_role[call.idx[i] + 1]]
        /\ ret.rv = SUCCESS =>
             /\ Len(ret.message) = Len(call.idx)
             /\ \A i \in 1 .. Len(call.idx) : ret.message[i] = Produced(trace[1], i)

C4_Witness ==
    /\ call.op = "receive_all" /\ J.kind = "mp" /\ call.idx = <<2, 0, 1>>
    /\ ret.rv = SUCCESS
    /\ ret.message = <<<<2>>, <<0>>, <<1>>>>

\* C5: in receive and in receive_all every scratch buffer the callback
\* filled is released exactly once before the adapter returns, whether the
\* callback succeeded or failed; on success the message keeps the bytes the
\* callback produced although the scratch was zeroed.
C5_ScratchReleasedOnce ==
    (call.op \in {"receive", "receive_all"} /\ Len(Callbacks) = 1) =>
        /\ \A b \in 1 .. Len(trace[1].outs) :
             ret.mem[b].frees = (IF trace[1].outs[b].data # 0 THEN 1 ELSE 0)
        /\ ret.rv = SUCCESS =>
             \A b \in 1 .. Len(trace[1].outs) :
                /\ ret.message[b] = Produced(trace[1], b)
                /\ ret.mem[b].bytes = Zeros(Len(Produced(trace[1], b)))

C5_WitnessFailure ==
    /\ call.op = "receive_all" /\ J.kind = "mp" /\ Len(Callbacks) = 1
    /\ ret.rv = E_NET_GENERAL
    /\ \E b \in 1 .. Len(trace[1].outs) : trace[1].outs[b].data # 0 /\ ret.mem[b].frees = 1

C5_Witness ==
    /\ call.op = "receive" /\ Len(Callbacks) = 1 /\ ret.rv = SUCCESS
    /\ trace[1].outs[1].data # 0 /\ ret.mem[1].frees = 1
    /\ Len(ret.message[1]) = 2 /\ ret.message[1] # <<0, 0>>
    /\ ret.mem[1].bytes = <<0, 0>>

\* The arguments cbmpc_job2p_new accepts.
Valid2p(c) ==
    /\ ~c.t.isnull /\ ~c.names.isnull
    /\ c.names.arr[1] # NullName /\ c.names.arr[2] # NullName
    /\ c.self \in {0, 1}

\* C6: cbmpc_job2p_new returns a handle exactly when the table and the names
\* array are non-null, both names are non-null and the local identity is 0 or
\* 1; otherwise it returns null and nothing stays allocated.  The mapping of
\* a returned session is the identity on {0, 1}.
C6_Job2pNew ==
    call.op = "cbmpc_job2p_new" =>
        /\ ret.handle # NULL <=> Valid2p(call)
        /\ ret.handle = NULL => (J = NoJob /\ trace = <<>>)
        /\ ret.handle # NULL =>
             /\ ret.handle = call.h
             /\ J.kind = "2p" /\ J.wrapper /\ J.job /\ J.adapter
             /\ J.index_to_role = <<0, 1>>

C6_Witness ==
    call.op = "cbmpc_job2p_new" /\ ret.handle # NULL /\ J.index_to_role = <<0, 1>>

C6_WitnessNull ==
    /\ call.op = "cbmpc_job2p_new" /\ ret.handle = NULL
    /\ ~call.t.isnull /\ ~call.names.isnull /\ call.self = 2

\* The arguments cbmpc_jobmp_new accepts.
ValidMp(c) ==
    /\ ~c.t.isnull /\ ~c.names.isnull
    /\ c.n >= 2 /\ c.self < c.n
    /\ \A i \in 1 .. c.n : c.names.arr[i] # NullName

\* C7: cbmpc_jobmp_new returns a handle exactly when the table and the names
\* array are non-null, n >= 2, the local identity is below n and every one of
\* the n names is non-null; otherwise it returns null and nothing stays
\* allocated.  The mapping of a returned session is the identity on 0..n-1.
C7_JobmpNew ==
    call.op = "cbmpc_jobmp_new" =>
        /\ ret.handle # NULL <=> ValidMp(call)
        /\ ret.handle = NULL => (J = NoJob /\ trace = <<>>)
        /\ ret.handle # NULL =>
             /\ ret.handle = call.h
             /\ J.kind = "mp" /\ J.wrapper /\ J.job /\ J.adapter
             /\ J.index_to_role = [i \in 1 .. call.n |-> i - 1]

C7_Witness ==
    /\ call.op = "cbmpc_jobmp_new" /\ ret.handle # NULL /\ call.n = 3
    /\ J.index_to_role = <<0, 1, 2>>

C7_WitnessNullName ==
    /\ call.op = "cbmpc_jobmp_new" /\ ret.handle = NULL /\ ~call.t.isnull
    /\ call.n = 3 /\ call.self < 3 /\ ~call.names.isnull
    /\ call.names.arr[3] = NullName

\* How many times the last call released the object what.
Releases(what) ==
    Len(SelectSeq(trace, LAMBDA e : e.ev = "release" /\ e.what = what))

\* The position in the trace of the release of what (0: never).
ReleasedAt(what) ==
    LET at == {i \in 1 .. Len(trace) : trace[i].ev = "release" /\ trace[i].what = what}
    IN IF at = {} THEN 0 ELSE CHOOSE i \in at : TRUE

\* C8: freeing a live session releases the engine job and the adapter, each
\* exactly once, the adapter only when the engine job and the wrapper have
\* both dropped their reference; freeing the null handle changes nothing.
C8_JobFree ==
    call.op = "cbmpc_job_free" =>
        IF call.h = NULL
        THEN trace = <<>> /\ ret.after = call.before /\ jobs[call.on] = call.before
        ELSE /\ call.before.job /\ call.before.adapter /\ call.before.refs = 2
             /\ Releases("job") = 1 /\ Releases("adapter") = 1 /\ Releases("wrapper") = 1
             /\ ReleasedAt("job") < ReleasedAt("adapter")
             /\ ~ret.after.job /\ ~ret.after.adapter /\ ~ret.after.wrapper
             /\ ret.after.refs = 0
             /\ J = NoJob

C8_Witness ==
    /\ call.op = "cbmpc_job_free" /\ call.h # NULL /\ call.kind = "mp"
    /\ Releases("adapter") = 1

C8_WitnessNull ==
    /\ call.op = "cbmpc_job_free" /\ call.h = NULL /\ call.kind = "2p"
    /\ jobs[call.on].adapter /\ jobs[call.on].refs = 2

(***************************************************************************)
(* Properties of the operation entry points.                               *)
(***************************************************************************)
SignOps == {"cbmpc_ecdsa2p_sign", "cbmpc_ecdsa2p_sign_with_global_abort"}

EntryOps == SignOps \cup {"cbmpc_agree_random_2p", "cbmpc_uc_batch_dl_verify"}

\* The engine calls of the last call.
EngineCalls == SelectSeq(trace, LAMBDA e : e.ev = "engine")

NullOrShort(m) == m.data = 0 \/ m.size <= 0

\* The last call was made with a null required pointer, a non-positive
\* required length, a null session handle or a null or empty key handle.
BadArguments ==
    \/ /\ call.op \in SignOps
       /\ \/ call.a.j = NULL \/ call.a.key \in {"null", "empty"}
          \/ NullOrShort(call.a.msg) \/ ~call.a.sid_out \/ ~call.a.sig_out
    \/ /\ call.op = "cbmpc_agree_random_2p"
       /\ call.a.j = NULL \/ ~call.a.out \/ call.a.bitlen <= 0
    \/ /\ call.op = "cbmpc_uc_batch_dl_verify"
       /\ \/ NullOrShort(call.a.proof) \/ NullOrShort(call.a.session_id)
          \/ call.a.Q_points.isnull \/ call.a.Q_count <= 0
          \/ \E i \in 1 .. call.a.Q_count : call.a.Q_points.arr[i] = 0

\* No output parameter of the last call was written.
OutputsUntouched ==
    /\ call.op \in SignOps => (ret.sid_out = Untouched /\ ret.sig_out = Untouched)
    /\ call.op = "cbmpc_agree_random_2p" => ret.out = Untouched

\* C9: an entry point called with a null required pointer, a non-positive
\* required length, a null session handle or a null or empty key handle
\* returns BadArgument before the engine is invoked (deserialization of an
\* input included), before any allocation and before any output is written.
C9_ValidateFirst ==
    (call.op \in EntryOps /\ BadArguments) =>
        /\ ret.rv = E_BADARG
        /\ trace = <<>>
        /\ OutputsUntouched

\* C10: when the engine's protocol run reports a failure code to an entry
\* point, the entry point returns exactly that code; the abort-detecting
\* signature returns the engine's possible-key-leak code as it is, which
\* differs from the BadArgument code the entry point returns itself.
C10_EngineCodeUnchanged ==
    call.op \in EntryOps =>
        /\ \A i \in 1 .. Len(EngineCalls) :
             EngineCalls[i].rv # SUCCESS => ret.rv = EngineCalls[i].rv
        /\ (/\ call.op = "cbmpc_ecdsa2p_sign_with_global_abort"
            /\ EngineCalls # <<>>
            /\ EngineCalls[1].rv = E_ECDSA_2P_BIT_LEAK) =>
               (ret.rv = E_ECDSA_2P_BIT_LEAK /\ ret.rv # E_BADARG)

C10_Witness ==
    /\ call.op = "cbmpc_ecdsa2p_sign_with_global_abort"
    /\ Len(EngineCalls) = 1
    /\ EngineCalls[1].fn = "ecdsa2pc::sign_with_global_abort"
    /\ EngineCalls[1].rv = E_ECDSA_2P_BIT_LEAK
    /\ ret.rv = E_ECDSA_2P_BIT_LEAK

C10_WitnessVerify ==
    /\ call.op = "cbmpc_uc_batch_dl_verify"
    /\ Len(EngineCalls) = 2 /\ EngineCalls[2].rv = E_CRYPTO /\ ret.rv = E_CRYPTO

(***************************************************************************)
(* Properties of the outputs and of the buffer helpers.                    *)
(***************************************************************************)
BatchOps == {"cbmpc_ecdsa2p_sign_batch", "cbmpc_ecdsa2p_sign_with_global_abort_batch"}

\* The position of the last engine call in the trace (0: none).
LastEngine ==
    LET at == {i \in 1 .. Len(trace) : trace[i].ev = "engine"}
    IN IF at = {} THEN 0 ELSE CHOOSE i \in at : \A k \in at : k <= i

\* The allocations made for the outputs: those after the engine has run.
OutAllocs ==
    SelectSeq(SubSeq(trace, LastEngine + 1, Len(trace)), LAMBDA e : e.ev = "alloc")

\* The first output was allocated and an allocation for the second failed.
SecondAllocFailed ==
    /\ Len(OutAllocs) >= 2
    /\ OutAllocs[1].ok
    /\ \E i \in 2 .. Len(OutAllocs) : ~OutAllocs[i].ok

\* C11: in the operations with two outputs (sign, sign_with_global_abort and
\* their batch forms), when the first output was allocated and the
\* allocation of the second fails, the first is zeroed and released, both
\* output parameters end up empty, the status is not success and no
\* allocation of the call stays live.
C11_SecondAllocFailure ==
    (call.op \in SignOps \cup BatchOps /\ SecondAllocFailed) =>
        /\ ret.rv # SUCCESS
        /\ ret.sid_out = NullView
        /\ ret.sig_out \in {NullView, NullViews}
        /\ \A b \in 1 .. Len(ret.heap) : ret.heap[b].frees = 1
        /\ ret.heap[1].wiped

GetterOps == {"ecdsa_2p_key_get_public_key", "ecdsa_2p_key_get_private_share"}

\* An output parameter is as it was before the call, or holds the empty value.
UnchangedOrEmpty(v) == v \in {Untouched, NullView, NullViews}

\* C12: when an entry point returns a status other than success, each of
\* its output parameters is unchanged or empty (null pointer, zero length);
\* none is left with a non-zero length next to a null pointer.
C12_OutputsOnFailure ==
    /\ (call.op \in SignOps \cup BatchOps /\ ret.rv # SUCCESS) =>
           (UnchangedOrEmpty(ret.sid_out) /\ UnchangedOrEmpty(ret.sig_out))
    /\ (call.op = "cbmpc_agree_random_2p" /\ ret.rv # SUCCESS) =>
           UnchangedOrEmpty(ret.out)
    /\ (call.op \in GetterOps /\ ret.rv # SUCCESS_CODE) => UnchangedOrEmpty(ret.out)

SidOps == SignOps \cup BatchOps \cup {"cbmpc_ecdsamp_refresh"}

EmptyIn(m) == m.data = 0 \/ m.size <= 0

\* The bytes behind an output view of the last call.
OutBytes(view) == buf_t(ret.heap, view)

\* The last call made again with its arguments a and the engine behaviour
\* eng, every allocation succeeding.
Again(a, eng) ==
    IF call.op = "cbmpc_ecdsa2p_sign" THEN cbmpc_ecdsa2p_sign(a, eng, <<TRUE, TRUE>>)
    ELSE IF call.op = "cbmpc_ecdsa2p_sign_with_global_abort"
    THEN cbmpc_ecdsa2p_sign_with_global_abort(a, eng, <<TRUE, TRUE>>)
    ELSE IF call.op = "cbmpc_ecdsa2p_sign_batch"
    THEN cbmpc_ecdsa2p_sign_batch(a, eng, <<TRUE, TRUE, TRUE>>)
    ELSE IF call.op = "cbmpc_ecdsa2p_sign_with_global_abort_batch"
    THEN cbmpc_ecdsa2p_sign_with_global_abort_batch(a, eng, <<TRUE, TRUE, TRUE>>)
    ELSE cbmpc_ecdsamp_refresh(a, eng, <<TRUE, TRUE>>)

\* C13: a non-empty sid_in reaches the engine byte for byte, an empty one
\* (null or of length zero) reaches it as the empty sid; on success sid_out
\* is the sid the engine holds after the run, non-empty when sid_in was
\* empty; and the same call made again with sid_out as sid_in returns that
\* sid unchanged.
C13_SessionIdUseOrGenerate ==
    (call.op \in SidOps /\ EngineCalls # <<>>) =>
        LET e == EngineCalls[1]
            in == call.a.sid_in
        IN /\ ~EmptyIn(in) => e.sid_in = in.bytes
           /\ EmptyIn(in) => e.sid_in = <<>>
           /\ ret.rv = SUCCESS =>
                LET sid == OutBytes(ret.sid_out)
                    a2  == [call.a EXCEPT !.sid_in = InMem(1, Len(sid), sid)]
                IN /\ sid = e.sid
                   /\ EmptyIn(in) => sid # <<>>
                   /\ ~EmptyIn(in) => sid = in.bytes
                   /\ \A eng \in (IF call.op \in BatchOps THEN BatchEngines ELSE Engines) :
                        LET r2 == Again(a2, eng) IN
                        r2.rv = SUCCESS => buf_t(r2.heap, r2.sid_out) = sid

C13_Witness ==
    /\ call.op = "cbmpc_ecdsamp_refresh" /\ ret.rv = SUCCESS
    /\ call.a.sid_in = InMem(1, 0, <<>>)
    /\ EngineCalls[1].sid_in = <<>>
    /\ OutBytes(ret.sid_out) # <<>>

C13_WitnessGiven ==
    /\ call.op = "cbmpc_ecdsa2p_sign" /\ ret.rv = SUCCESS
    /\ call.a.sid_in = InMem(1, 1, <<4>>)
    /\ OutBytes(ret.sid_out) = <<4>>

\* C14: alloc_and_copy(src, n) returns, when malloc succeeds, a view of
\* length n on a fresh block that holds the bytes of src and is not the
\* block of src; for n = 0 it returns (null, 0) and allocates nothing; when
\* malloc fails it returns (null, 0).
C14_AllocAndCopy ==
    call.op = "alloc_and_copy" =>
        LET n == Len(call.src) IN
        /\ ret.heap[1] = Block(call.src)
        /\ n = 0 => (ret.view = NullView /\ Len(ret.heap) = 1 /\ trace = <<>>)
        /\ (n > 0 /\ ~call.ok) => (ret.view = NullView /\ Len(ret.heap) = 1)
        /\ (n > 0 /\ call.ok) =>
             /\ ret.view.size = n
             /\ ret.view.data = 2 /\ Len(ret.heap) = 2
             /\ ret.heap[2] = Block(call.src)

C14_Witness ==
    /\ call.op = "alloc_and_copy" /\ call.ok /\ call.src = <<1, 2>>
    /\ ret.view.size = 2 /\ ret.heap[ret.view.data].bytes = <<1, 2>>

C14_WitnessFailure ==
    call.op = "alloc_and_copy" /\ ~call.ok /\ Len(call.src) = 2 /\ ret.view = NullView

\* C15: every buffer a boundary function hands to the caller has length 0
\* when its data pointer is null, on every path; this covers the buffers of
\* alloc_and_copy and those of alloc_cmem.
C15_NullImpliesEmpty ==
    /\ call.op \in SignOps \cup {"cbmpc_ecdsamp_refresh"} =>
           (ret.sid_out # Untouched /\ ret.sid_out.data = 0 => ret.sid_out.size = 0)
    /\ call.op \in SignOps =>
           (ret.sig_out # Untouched /\ ret.sig_out.data = 0 => ret.sig_out.size = 0)
    /\ call.op \in {"cbmpc_agree_random_2p", "bn_to_bytes"} =>
           (ret.out # Untouched /\ ret.out.data = 0 => ret.out.size = 0)

AllEmpty(vec) == \A i \in 1 .. Len(vec) : vec[i] = <<>>

\* C16: alloc_and_copy_vector applied to the empty list, or to a list of
\* buffers that all have length 0, returns null data, a null sizes array and
\* count 0.
C16_AllEmptyCollapses ==
    (call.op = "alloc_and_copy_vector" /\ AllEmpty(call.vec)) => ret.view = NullViews

\* The result of a vector copy describes vec: count and sizes match and the
\* data block holds the buffers one after the other.
Describes(view, heap, vec) ==
    /\ view.count = Len(vec)
    /\ view.sizes # 0
    /\ heap[view.sizes].bytes = [i \in 1 .. Len(vec) |-> Len(vec[i])]
    /\ IF view.data = 0 THEN Concat(vec) = <<>>
       ELSE heap[view.data].bytes = Concat(vec)

\* C17 as stated: whenever no allocation fails, the result of
\* alloc_and_copy_vector(vec) has count equal to the number of buffers,
\* sizes[i] equal to the length of vec[i], and a data region that holds the
\* buffers concatenated (null only when the total length is 0).
C17_AsStated ==
    (call.op = "alloc_and_copy_vector" /\ call.vec # <<>>
        /\ \A i \in 1 .. Len(trace) : trace[i].ok) =>
        Describes(ret.view, ret.heap, call.vec)

\* C17, amended: the above holds whenever the total length is positive; for
\* a non-empty list of empty buffers the backend helper returns the
\* collapsed array (count 0) and the helper of src/internal/bindings returns
\* null data with a sizes array of zeros and count equal to the number of
\* buffers.
C17_BufferArrayShape ==
    (call.op = "alloc_and_copy_vector" /\ call.vec # <<>>
        /\ \A i \in 1 .. Len(trace) : trace[i].ok) =>
        IF Len(Concat(call.vec)) > 0 \/ call.layer = "bindings"
        THEN Describes(ret.view, ret.heap, call.vec)
        ELSE ret.view = NullViews /\ ret.heap = <<>>

C17_Witness ==
    /\ call.op = "alloc_and_copy_vector" /\ call.layer = "bindings"
    /\ call.vec = <<<<7, 8>>, <<5>>>>
    /\ ret.view.count = 2
    /\ ret.heap[ret.view.data].bytes = <<7, 8, 5>>
    /\ ret.heap[ret.view.sizes].bytes = <<2, 1>>

\* Every block of mem that was released had been zeroed when it was released.
ZeroedAtRelease(mem) == \A b \in 1 .. Len(mem) : mem[b].frees > 0 => mem[b].wiped

\* C18: every release of a buffer that may have held private key material
\* (a transport scratch message, an output released after a partial
\* failure, a private key share handed to the caller) zeroes the bytes
\* before the allocation is released.
C18_ZeroBeforeRelease ==
    /\ call.op \in {"receive", "receive_all"} => ZeroedAtRelease(ret.mem)
    /\ call.op \in SignOps => ZeroedAtRelease(ret.heap)
    /\ (call.op = "ecdsa_2p_free_buffer" /\ call.got = "ecdsa_2p_key_get_private_share") =>
           ZeroedAtRelease(ret.heap)

(***************************************************************************)
(* Creation and destruction of handles.                                    *)
(***************************************************************************)
CreateOps == {"cbmpc_ecdsa2p_key_deserialize", "cbmpc_schnorr2p_key_deserialize",
              "cbmpc_ecc_point_from_bytes", "ecdsa_2p_keygen", "cbmpc_ecdsamp_refresh"}

\* No object of objs is still allocated.
AllReleased(objs) == \A i \in 1 .. Len(objs) : ~objs[i].live

\* C19: a creation function writes a handle to its out-parameter exactly
\* when it returns success; on every failure return (bad argument,
\* deserialization or engine error, exception caught inside the call) the
\* out-handle is not written and every object the call allocated has been
\* released.
C19_HandleOnlyOnSuccess ==
    call.op \in CreateOps =>
        /\ (ret.key_out = "handle") <=> (ret.rv = SUCCESS)
        /\ ret.rv # SUCCESS => AllReleased(ret.objs)

DestroyOps == {"cbmpc_ecdsa2p_key_free", "cbmpc_schnorr2p_key_free",
               "cbmpc_ecc_point_free", "ecdsa_2p_key_free"}

\* The handles made of an engine object and a wrapper struct.
WrappedOps == {"cbmpc_ecdsa2p_key_free", "cbmpc_schnorr2p_key_free"}

\* How many times the last call deleted the object called what.
Deletes(what) == Cardinality({i \in 1 .. Len(trace) : trace[i] = Deleted(what)})

\* C20: a destruction function called on the handle its creation function
\* returned releases every object the creation left allocated (the engine
\* object and, for a key handle, the wrapper struct), each exactly once;
\* called on a null handle it does nothing.
C20_DestroyReleasesOnce ==
    call.op \in DestroyOps =>
        IF call.key.isnull
        THEN trace = <<>> /\ ret.objs = call.had
        ELSE /\ Len(ret.objs) = Len(call.had)
             /\ AllReleased(ret.objs)
             /\ \A i \in 1 .. Len(call.had) :
                  call.had[i].live /\ Deletes(call.had[i].what) = 1
             /\ Len(trace) = Len(call.had)
             /\ call.op \in WrappedOps => Len(call.had) = 2

C20_Witness ==
    /\ call.op = "cbmpc_ecdsa2p_key_free"
    /\ ~call.key.isnull
    /\ call.had = <<Obj("ecdsa2pc::key_t"), Obj("cbmpc_ecdsa2p_key")>>
    /\ trace = <<Deleted("ecdsa2pc::key_t"), Deleted("cbmpc_ecdsa2p_key")>>
    /\ ret.objs = <<Gone("ecdsa2pc::key_t"), Gone("cbmpc_ecdsa2p_key")>>

C20_WitnessNull ==
    /\ call.op = "cbmpc_schnorr2p_key_free"
    /\ call.key.isnull
    /\ ret.objs = <<Obj("key_share_2p_t"), Obj("cbmpc_schnorr2p_key")>>

(***************************************************************************)
(* Borrowed results.                                                       *)
(***************************************************************************)
\* C21: cbmpc_pve_get_Q_point returns a borrowed reference: a caller that
\* never frees the returned point leaves no allocation outstanding after
\* the call.
C21_BorrowedPoint ==
    call.op = "cbmpc_pve_get_Q_point" => AllReleased(ret.objs)

(***************************************************************************)
(* Serialized keys.                                                        *)
(***************************************************************************)
RoundTripOps == {"ecdsa2p_key_roundtrip", "ecdsamp_key_roundtrip", "schnorr2p_key_roundtrip"}

\* C22: for every valid ECDSA-2P, ECDSA-MP and Schnorr-2P key x,
\* deserialize(serialize(x)) succeeds and yields a key that agrees with x
\* under every read-only accessor: same public key bytes, same curve
\* identifier, same role (2P) or same party name and same public-share map
\* Qis, name for name (MP), for any number of parties.
C22_KeyRoundTrip ==
    call.op \in RoundTripOps =>
        /\ ret.rv = SUCCESS
        /\ ret.y = call.x
        /\ call.op = "schnorr2p_key_roundtrip" =>
             /\ schnorr2p_key_get_public_key(ret.y) = schnorr2p_key_get_public_key(call.x)
             /\ schnorr2p_key_get_curve(ret.y) = schnorr2p_key_get_curve(call.x)
        /\ call.op # "schnorr2p_key_roundtrip" =>
             /\ key_get_public_key(ret.y) = key_get_public_key(call.x)
             /\ key_get_curve(ret.y) = key_get_curve(call.x)
        /\ call.op # "ecdsamp_key_roundtrip" => ret.y.role = call.x.role
        /\ call.op = "ecdsamp_key_roundtrip" =>
             /\ ret.y.party_name = call.x.party_name
             /\ DOMAIN ret.y.Qis = DOMAIN call.x.Qis
             /\ \A n \in DOMAIN call.x.Qis : ret.y.Qis[n] = call.x.Qis[n]

\* A multi-party key of two parties whose names begin alike and whose public
\* shares differ has been serialized and read back.
C22_Witness ==
    /\ call.op = "ecdsamp_key_roundtrip"
    /\ DOMAIN call.x.Qis = {<<65>>, <<65, 66>>}
    /\ call.x.Qis[<<65>>] # call.x.Qis[<<65, 66>>]
    /\ call.x.x_share = 258
    /\ ret.rv = SUCCESS
    /\ ret.y.Qis = call.x.Qis

C22_WitnessTwoParty ==
    /\ call.op = "ecdsa2p_key_roundtrip"
    /\ call.x.x_share = 258 /\ call.x.c_key = 77 /\ call.x.role = 1
    /\ ret.rv = SUCCESS
    /\ ret.y.x_share = 258 /\ ret.y.c_key = 77

(***************************************************************************)
(* Keys behind input handles.                                              *)
(***************************************************************************)
RefreshOps == {"cbmpc_ecdsamp_refresh", "cbmpc_ecdsa2p_refresh", "ecdsa_2p_refresh"}

KeyOps == SignOps \cup BatchOps \cup RefreshOps \cup {"cbmpc_schnorr2p_sign", "ecdsa_2p_sign"}

\* The engine calls of the last call that were given the caller's key.
KeyUses == SelectSeq(trace, LAMBDA e : e.ev = "engine" /\ "key" \in DOMAIN e)

C23_WitnessRefresh ==
    /\ call.op = "ecdsa_2p_refresh"
    /\ ret.rv = SUCCESS_CODE
    /\ ret.key_out = "handle"
    /\ Len(KeyUses) = 1
    /\ KeyUses[1].key = "const"

(***************************************************************************)
(* The KEM context handle.                                                 *)
(***************************************************************************)
\* What thread t last stored by the calls of log: the handle of its most
\* recent set, null after a clear or when it never set one.
RECURSIVE LastStored(_, _)
LastStored(log, t) ==
    IF log = <<>> THEN 0
    ELSE LET e == log[Len(log)] IN
         IF e.t = t /\ e.op = "cbmpc_set_kem_tls" THEN e.handle
         ELSE IF e.t = t /\ e.op = "cbmpc_clear_kem_tls" THEN 0
         ELSE LastStored(SubSeq(log, 1, Len(log) - 1), t)

\* C24: the KEM context handle is per thread: on any thread,
\* cbmpc_get_kem_tls returns the value passed to the most recent
\* cbmpc_set_kem_tls on that same thread, or null if that thread never set
\* one or cleared it since; a set or clear on one thread never changes what
\* another thread reads.
C24_KemHandlePerThread ==
    /\ \A i \in 1 .. Len(trace) :
         ("op" \in DOMAIN trace[i] /\ trace[i].op = "cbmpc_get_kem_tls") =>
             trace[i].value = LastStored(SubSeq(trace, 1, i - 1), trace[i].t)
    /\ \A t \in Threads :
         (\A i \in 1 .. Len(trace) : "op" \in DOMAIN trace[i]) =>
             cbmpc_get_kem_tls(g_cbmpc_kem_tls, t) = LastStored(trace, t)

\* Two threads registered different handles, then the first read its own.
C24_Witness ==
    /\ Len(trace) = 3
    /\ trace[1] = [op |-> "cbmpc_set_kem_tls", t |-> "t1", handle |-> 1, value |-> 1]
    /\ trace[2].op = "cbmpc_set_kem_tls" /\ trace[2].t = "t2" /\ trace[2].handle = 2
    /\ trace[3].op = "cbmpc_get_kem_tls" /\ trace[3].t = "t1"
    /\ ret.value = 1

\* A thread cleared its handle while another kept its own.
C24_WitnessClear ==
    /\ Len(trace) = 3
    /\ trace[1].op = "cbmpc_set_kem_tls" /\ trace[1].t = "t1" /\ trace[1].handle = 1
    /\ trace[2].op = "cbmpc_set_kem_tls" /\ trace[2].t = "t2" /\ trace[2].handle = 2
    /\ trace[3].op = "cbmpc_clear_kem_tls" /\ trace[3].t = "t1"
    /\ g_cbmpc_kem_tls["t1"] = 0 /\ g_cbmpc_kem_tls["t2"] = 2

(***************************************************************************)
(* Exceptions at the boundary.                                             *)
(***************************************************************************)
\* The entry points whose exceptions are followed.
ThrowingOps == {"cbmpc_ecdsa2p_dkg", "mpc_agree_random", "mpc_multi_agree_random",
                "bn_from_bytes"}

\* C25: no boundary entry point lets a language-native exception escape to
\* the caller: every failure inside a call, including an exception thrown by
\* the engine or by an allocation made after the engine returned, is
\* reported as an integer status value.
C25_NoExceptionEscapes ==
    call.op \in ThrowingOps =>
        /\ ret.thrown = "none"
        /\ call.op # "bn_from_bytes" => ret.rv \in Int

(***************************************************************************)
(* Agree-random with a non-positive bit length.                            *)
(***************************************************************************)
\* The agree-random entry points of the two binding layers and the name of
\* each one's bit length argument.
AgreeOps == {"cbmpc_agree_random_2p", "cbmpc_multi_agree_random",
             "mpc_agree_random", "mpc_multi_agree_random"}

BitLen(c) == IF c.op \in {"mpc_agree_random", "mpc_multi_agree_random"}
             THEN c.a.bit_len ELSE c.a.bitlen

\* C26: every agree-random entry point (two-party and multi-party, in both
\* binding layers) called with a bit length <= 0 returns a parameter or
\* bad-argument error without invoking the engine and without any transport
\* callback being invoked.
C26_AgreeRandomBitLen ==
    (call.op \in AgreeOps /\ BitLen(call) <= 0) =>
        /\ ret.rv \in {E_BADARG, AGREE_PARAM_ERROR_CODE}
        /\ trace = <<>>

(***************************************************************************)
(* Sessions: what a session holds stays what its constructor captured, and *)
(* two sessions share nothing.                                             *)
(***************************************************************************)
TransportOps == {"send", "receive", "receive_all"}

\* The mapping a constructor builds for n parties: index i is identity i.
Mapping(n) == [i \in 1 .. n |-> i - 1]

\* C27: a session is immutable for its lifetime: the callback table, the
\* local identity and the index-to-identity mapping used by every operation
\* on it are the values captured at construction, also when the caller has
\* changed or released the table it passed.
C27_SessionImmutable ==
    \A h \in AllHandles :
        Live(h) =>
            /\ Session(h).kind = made[h].kind
            /\ Session(h).vtable = [ctx |-> made[h].ctx, send |-> made[h].send,
                                    receive |-> made[h].receive,
                                    receive_all |-> made[h].receive_all]
            /\ Session(h).self = made[h].self
            /\ Session(h).names = made[h].names
            /\ Session(h).index_to_role = Mapping(Len(made[h].names))
            /\ (call.op \in TransportOps /\ call.h = h) =>
                   \A i \in 1 .. Len(Callbacks) : Callbacks[i].ctx = made[h].ctx

\* The caller released its table; a later send on the session still reached
\* the callback and the ctx the constructor was given.
C27_Witness ==
    \E h \in AllHandles :
        /\ Live(h) /\ caller_table[h] = Released
        /\ call.op = "send" /\ call.h = h /\ ret.rv = SUCCESS
        /\ Len(trace) = 1 /\ trace[1].ctx = made[h].ctx

\* The caller overwrote its table with one of another ctx.
C27_WitnessChanged ==
    \E h \in AllHandles :
        /\ Live(h) /\ ~caller_table[h].isnull /\ caller_table[h].ctx \in Ctxs
        /\ caller_table[h].ctx # made[h].ctx
        /\ call.op = "receive" /\ call.h = h
        /\ Len(Callbacks) = 1 /\ Callbacks[1].ctx = made[h].ctx

SessionOps == TransportOps \cup {"cbmpc_job2p_new", "cbmpc_jobmp_new", "cbmpc_job_free"}

\* A call on one session: the other session is left as it was, and the
\* result and the callbacks made are those of the called session's own
\* table and mapping.
OwnSessionOnly ==
    call'.op \in SessionOps =>
        LET h == call'.h IN
        /\ \A o \in AllHandles \ {h} :
             jobs'[o] = jobs[o] /\ made'[o] = made[o] /\ caller_table'[o] = caller_table[o]
        /\ call'.op = "send" =>
             \E env \in Envs(0) :
                 LET r == go_transport_base_send(Adapter(jobs[h]), call'.idx[1],
                                                 call'.msg, env)
                 IN ret'.rv = r.rv /\ trace' = r.log
        /\ call'.op = "receive" =>
             \E env \in Envs(1) :
                 LET r == go_transport_base_receive(Adapter(jobs[h]), call'.idx[1],
                                                    <<>>, env)
                 IN /\ ret' = [rv |-> r.rv, message |-> <<r.msg>>, mem |-> r.mem]
                    /\ trace' = r.log
        /\ call'.op = "receive_all" =>
             \E env \in Envs(Len(call'.idx)) :
                 LET r == receive_all(jobs[h], call'.idx, <<>>, env)
                 IN /\ ret' = [rv |-> r.rv, message |-> r.message, mem |-> r.mem]
                    /\ trace' = r.log
        /\ call'.op \in TransportOps =>
             \A i \in 1 .. Len(trace') : trace'[i].ctx = made[h].ctx

TempJobOps == {"ecdsa_2p_keygen", "ecdsa_2p_sign", "ecdsa_2p_refresh"}

\* The last call created a temporary job / allocated a key object.
JobCreated == \E i \in 1 .. Len(trace) : trace[i] = [ev |-> "new_job_2p", ok |-> TRUE]
KeyAllocated ==
    \E i \in 1 .. Len(trace) : trace[i] = [ev |-> "new", what |-> "ecdsa_2p_key_internal"]

\* C29: each call of ecdsa_2p_keygen, ecdsa_2p_sign and ecdsa_2p_refresh
\* that creates a temporary two-party job releases that job exactly once
\* before returning, on every return path (success, engine error, empty
\* signature list, output allocation failure, caught exception); the key
\* object allocated before the engine call is released exactly once on the
\* failing paths.
C29_TempJobReleasedOnce ==
    call.op \in TempJobOps =>
        /\ JobCreated => Deletes("job_2p_ref") = 1
        /\ ~JobCreated => Deletes("job_2p_ref") = 0
        /\ (KeyAllocated /\ ret.rv # SUCCESS_CODE) => Deletes("ecdsa_2p_key_internal") = 1

(***************************************************************************)
(* Packing and unpacking a buffer array.                                   *)
(***************************************************************************)
\* C30: packing and unpacking a buffer array round-trip: for every list v
\* of byte strings with at least one non-empty element, the
\* message-unpacking loop of the batch operations applied to
\* alloc_and_copy_vector(v) (both allocations succeeding) yields a list of
\* the same length whose i-th element has the bytes of v[i]; empty elements
\* map to empty messages and do not shift the offsets of later elements.
\* The scalar loop agrees when no element is empty.
C30_PackUnpackRoundTrip ==
    (call.op = "pack_unpack" /\ Len(Concat(call.vec)) > 0
        /\ \A i \in 1 .. Len(trace) : trace[i].ok) =>
        /\ Len(ret.msg_vec) = Len(call.vec)
        /\ \A i \in 1 .. Len(call.vec) : ret.msg_vec[i] = call.vec[i]
        /\ (\A i \in 1 .. Len(call.vec) : call.vec[i] # <<>>) =>
               ret.w = [rv |-> SUCCESS, w_vec |-> call.vec]

\* An empty element between two non-empty ones.
C30_Witness ==
    /\ call.op = "pack_unpack"
    /\ call.vec = <<<<5>>, <<>>, <<7, 8>>>>
    /\ ret.view.count = 3
    /\ ret.msg_vec = <<<<5>>, <<>>, <<7, 8>>>>

====
